---------------------------- MODULE Spec2Model ----------------------------
(***************************************************************************)
(* Online 1v1 battle core of testTetris: rank store (rankManager),         *)
(* matchmaking queue (matchmaking), battle channel (battleChannel) and     *)
(* battle orchestrator (battleGame), together with the tables and the     *)
(* row-level policies of supabase-online-schema.sql.                       *)
(*                                                                         *)
(* Every client is a single-threaded event loop; every store call and      *)
(* every channel send is an await, i.e. a point where other callbacks of   *)
(* the same client and steps of other clients interleave.  Timers carry    *)
(* no duration here: an armed timer may fire at any later point unless it  *)
(* was cleared first.                                                      *)
(***************************************************************************)
EXTENDS Integers, Sequences, FiniteSets, Bags, TLC

(***************************************************************************)
(* Program constants (constants.ts)                                        *)
(***************************************************************************)
TIER_ORDER ==
  << "Iron", "Bronze", "Silver", "Gold", "Platinum", "Emerald", "Diamond",
     "Master", "Grandmaster", "Challenger" >>

POINTS_PER_DIVISION == 100

WIN_POINTS == 12

LOSS_POINTS == 4

MAX_ONLINE_HEARTS == 5

ONLINE_HEART_RECHARGE_MS == 1800000

COUNTDOWN_SECONDS == 3

DEFAULT_TIER == "Iron"

DEFAULT_DIVISION == 4

DEFAULT_POINTS == 0

(***************************************************************************)
(* Bounds of the model                                                     *)
(***************************************************************************)
\* match results applied to one rank row in the rank specification
MaxResults == 4

\* the clock of the energy specification runs over this many recharge intervals
MaxIntervals == 3

\* the signed-in user of the rank-store specifications
RankUser == "a"

\* pairing searches (tryFindOpponent) one client may have in flight at once
MaxSearches == 2

\* joinMatchmaking calls per player
MaxJoins == 1

\* Match rows the store holds
MaxMatches == 3

\* handleMatchFound calls per client
MaxBattles == 1

\* websocket drops over all clients
MaxDrops == 1

\* ticks an interval is followed for after its count has passed zero
MaxExtraTicks == 2

\* garbage lines a Live client has waiting when the garbage specification starts
MaxIncoming == 5

\* garbage lines one client sends in the garbage specification
MaxGarbageSent == 8

\* calls of getOrCreatePlayerRank each of the two concurrent requests makes
MaxAccess == 2

\* DELETEs of leaveMatchmaking one client has under way at a time
MaxLeaves == 2

\* calls of joinMatchmaking a client makes while its matchmaking modal is shown
MaxRejoins == 1

\* calls of cleanupBattle made from outside the result screen, per client
MaxCleanups == 2

\* further calls of sendReady in one session, per client
MaxReadies == 1

\* the players, in the order their ids compare (a < b < c)
PlayerOrder == << "a", "b", "c" >>

Players == {PlayerOrder[i] : i \in 1..Len(PlayerOrder)}

\* the rank each player brings to matchmaking: a and b are within one tier
\* of each other, and so are b and c; a and c are two tiers apart
PlayerTier == [a |-> "Iron", b |-> "Bronze", c |-> "Silver"]

VARIABLES
  player_ranks,        \* table public.player_ranks: a set of rows
  now,                 \* Date.now() in ms
  call,                \* the last rank-store call: operation, store answers, result
  matchmaking_queue,   \* table public.matchmaking_queue, rows in created_at order
  matches,             \* table public.matches, rows in creation order (id = position)
  mm,                  \* per client: matchmakingTimeout, searchInterval,
                       \*   matchmakingChannel, queueChannel (matchmaking.ts globals)
  joining,             \* per client: where its joinMatchmaking call stands, and
                       \*   whether the matchmaking modal is shown (main.ts)
  tasks,               \* per client: the bag of its tryFindOpponent calls in flight
  leaving,             \* per client: DELETEs of leaveMatchmaking in flight
  inbox,               \* per client: match_found broadcasts on the way to it
  queueEvents,         \* per client: INSERT notifications on the way to it
  cb,                  \* per client: the MatchmakingCallbacks invoked so far
  battleState,         \* per client: battleState of battleGame.ts (or no session)
  battleChannel,       \* per client: its BattleChannel: channel, syncInterval,
                       \*   disconnectTimeout
  countdowns,          \* per client: countdownInterval and the intervals alive
  flows,               \* per client: where its async calls stand (connect,
                       \*   setPlayerReady, startBattle, endBattle)
  game,                \* per client: isBattleMode, state.running, result modal (main.ts)
  wire,                \* per client: what its websocket will receive, in order
  net,                 \* realtime server: who tracks presence, whose socket is up
  match_history,       \* table public.match_history: a set of rows
  events               \* per client: callbacks invoked and calls made so far

rankVars == << player_ranks, now, call >>

mmVars == << matchmaking_queue, matches, mm, joining, tasks, leaving, inbox, queueEvents, cb >>

battleVars ==
  << battleState, battleChannel, countdowns, flows, game, wire, net, match_history, events >>

vars == << rankVars, mmVars, battleVars >>

(***************************************************************************)
(* Rank store (rankManager.ts)                                             *)
(***************************************************************************)
Min(x, y) == IF x <= y THEN x ELSE y

Max(x, y) == IF x >= y THEN x ELSE y

\* TIER_ORDER.indexOf(tier): 0-based
TierIndex(tier) == (CHOOSE i \in 1..Len(TIER_ORDER) : TIER_ORDER[i] = tier) - 1

\* TIER_ORDER[i] for a 0-based i
TierAt(i) == TIER_ORDER[i + 1]

Tiers == {TIER_ORDER[i] : i \in 1..Len(TIER_ORDER)}

\* the row getOrCreatePlayerRank inserts for a new player
DefaultRank(userId) ==
  [ user_id |-> userId, tier |-> DEFAULT_TIER, division |-> DEFAULT_DIVISION,
    points |-> DEFAULT_POINTS, total_points |-> 0, wins |-> 0, losses |-> 0,
    online_hearts |-> MAX_ONLINE_HEARTS, hearts_recharged_at |-> << >> ]

\* CHECK constraints of public.player_ranks
RankRowValid(r) ==
  /\ r.tier \in Tiers
  /\ r.division \in 1..4
  /\ r.points >= 0 /\ r.points < 100
  /\ r.online_hearts >= 0 /\ r.online_hearts <= 5

RowsOf(table, userId) == {r \in table : r.user_id = userId}

\* getOrCreatePlayerRank: << >> is the null result, << r >> the rank found or
\* created.  fetchOk / insertOk: whether the store answers the select / insert.
getOrCreatePlayerRank(table, userId, fetchOk, insertOk) ==
  LET existing == RowsOf(table, userId) IN
  IF fetchOk /\ Cardinality(existing) = 1
    THEN [table |-> table, rank |-> << CHOOSE r \in existing : TRUE >>]
  ELSE IF fetchOk /\ existing = {} /\ insertOk
    THEN [table |-> table \cup {DefaultRank(userId)}, rank |-> << DefaultRank(userId) >>]
  ELSE [table |-> table, rank |-> << >>]

\* A promotion loop that tests points > 100 where the code tests >= 100.
RECURSIVE PromoteLoop_StrictGt(_)
PromoteLoop_StrictGt(st) ==
  IF st.points > POINTS_PER_DIVISION
    THEN LET p == st.points - POINTS_PER_DIVISION IN
         IF st.division > 1
           THEN PromoteLoop_StrictGt([st EXCEPT !.points = p, !.division = st.division - 1])
         ELSE IF st.tierIndex < Len(TIER_ORDER) - 1
           THEN PromoteLoop_StrictGt([points |-> p, division |-> 4,
                                      tierIndex |-> st.tierIndex + 1])
         ELSE [st EXCEPT !.points = POINTS_PER_DIVISION - 1]
    ELSE st

\* A promotion loop that enters the next tier at division 1 where the code
\* enters it at division 4.
RECURSIVE PromoteLoop_TierKeepsDivision(_)
PromoteLoop_TierKeepsDivision(st) ==
  IF st.points >= POINTS_PER_DIVISION
    THEN LET p == st.points - POINTS_PER_DIVISION IN
         IF st.division > 1
           THEN PromoteLoop_TierKeepsDivision([st EXCEPT !.points = p,
                                                         !.division = st.division - 1])
         ELSE IF st.tierIndex < Len(TIER_ORDER) - 1
           THEN PromoteLoop_TierKeepsDivision([points |-> p, division |-> 1,
                                               tierIndex |-> st.tierIndex + 1])
         ELSE [st EXCEPT !.points = POINTS_PER_DIVISION - 1]
    ELSE st

\* A promotion loop that keeps the points left after taking 100 off at the
\* top of the ladder, where the code sets them to 99.
RECURSIVE PromoteLoop_TopKeepsExcess(_)
PromoteLoop_TopKeepsExcess(st) ==
  IF st.points >= POINTS_PER_DIVISION
    THEN LET p == st.points - POINTS_PER_DIVISION IN
         IF st.division > 1
           THEN PromoteLoop_TopKeepsExcess([st EXCEPT !.points = p,
                                                      !.division = st.division - 1])
         ELSE IF st.tierIndex < Len(TIER_ORDER) - 1
           THEN PromoteLoop_TopKeepsExcess([points |-> p, division |-> 4,
                                            tierIndex |-> st.tierIndex + 1])
         ELSE [st EXCEPT !.points = p]
    ELSE st

\* the promotion loop of calculateNewRank; st = [points, division, tierIndex]
RECURSIVE PromoteLoop(_)
PromoteLoop(st) ==
  IF st.points >= POINTS_PER_DIVISION
    THEN LET p == st.points - POINTS_PER_DIVISION IN
         IF st.division > 1
           THEN PromoteLoop([st EXCEPT !.points = p, !.division = st.division - 1])
         ELSE IF st.tierIndex < Len(TIER_ORDER) - 1
           THEN PromoteLoop([points |-> p, division |-> 4, tierIndex |-> st.tierIndex + 1])
         ELSE [st EXCEPT !.points = POINTS_PER_DIVISION - 1]
    ELSE st

\* A demotion loop that leaves the points negative at the bottom of the
\* ladder where the code sets them to 0.
RECURSIVE DemoteLoop_NoClamp(_)
DemoteLoop_NoClamp(st) ==
  IF st.points < 0
    THEN IF st.division < 4
           THEN DemoteLoop_NoClamp([st EXCEPT !.points = st.points + POINTS_PER_DIVISION,
                                              !.division = st.division + 1])
         ELSE IF st.tierIndex > 0
           THEN DemoteLoop_NoClamp([points |-> st.points + POINTS_PER_DIVISION,
                                    division |-> 1, tierIndex |-> st.tierIndex - 1])
         ELSE st
    ELSE st

\* A demotion loop that enters the tier below at division 4 where the code
\* enters it at division 1.
RECURSIVE DemoteLoop_TierToDivision4(_)
DemoteLoop_TierToDivision4(st) ==
  IF st.points < 0
    THEN IF st.division < 4
           THEN DemoteLoop_TierToDivision4([st EXCEPT !.points = st.points + POINTS_PER_DIVISION,
                                                      !.division = st.division + 1])
         ELSE IF st.tierIndex > 0
           THEN DemoteLoop_TierToDivision4([points |-> st.points + POINTS_PER_DIVISION,
                                            division |-> 4, tierIndex |-> st.tierIndex - 1])
         ELSE [st EXCEPT !.points = 0]
    ELSE st

\* the demotion loop of calculateNewRank
RECURSIVE DemoteLoop(_)
DemoteLoop(st) ==
  IF st.points < 0
    THEN IF st.division < 4
           THEN DemoteLoop([st EXCEPT !.points = st.points + POINTS_PER_DIVISION,
                                      !.division = st.division + 1])
         ELSE IF st.tierIndex > 0
           THEN DemoteLoop([points |-> st.points + POINTS_PER_DIVISION, division |-> 1,
                            tierIndex |-> st.tierIndex - 1])
         ELSE [st EXCEPT !.points = 0]
    ELSE st

calculateNewRank(current, pointsDelta) ==
  LET st == DemoteLoop(PromoteLoop([points |-> current.points + pointsDelta,
                                    division |-> current.division,
                                    tierIndex |-> TierIndex(current.tier)]))
  IN [tier |-> TierAt(st.tierIndex), division |-> st.division, points |-> st.points]

\* A tier value that grows with the division number, where the code's falls.
getTierValue_DivisionAscending(tier, division) == TierIndex(tier) * 4 + division

getTierValue(tier, division) == TierIndex(tier) * 4 + (4 - division)

RankOf(r) == [tier |-> r.tier, division |-> r.division, points |-> r.points]

RankUpdateRow_TotalFollowsDelta(cur, newRank, isWin) ==
  [cur EXCEPT !.tier = newRank.tier, !.division = newRank.division,
              !.points = newRank.points,
              !.total_points = cur.total_points + (IF isWin THEN WIN_POINTS ELSE -LOSS_POINTS),
              !.wins = cur.wins + (IF isWin THEN 1 ELSE 0),
              !.losses = cur.losses + (IF isWin THEN 0 ELSE 1)]

\* The UPDATE of updateRankAfterMatch on the caller's row.  The CHECK
\* constraints of the table reject a row that violates them.
RankUpdateRow(cur, newRank, isWin) ==
  [cur EXCEPT !.tier = newRank.tier, !.division = newRank.division,
              !.points = newRank.points,
              !.total_points = cur.total_points + (IF isWin THEN WIN_POINTS ELSE 0),
              !.wins = cur.wins + (IF isWin THEN 1 ELSE 0),
              !.losses = cur.losses + (IF isWin THEN 0 ELSE 1)]

\* updateRankAfterMatch(userId, isWin): the new table and the RankChange
\* returned (<< >> for null)
updateRankAfterMatch(table, userId, isWin, fetchOk, insertOk, updateOk) ==
  LET got == getOrCreatePlayerRank(table, userId, fetchOk, insertOk) IN
  IF got.rank = << >> THEN [table |-> got.table, change |-> << >>]
  ELSE
    LET currentRank == got.rank[1]
        before == RankOf(currentRank)
        pointsDelta == IF isWin THEN WIN_POINTS ELSE -LOSS_POINTS
        newRank == calculateNewRank(currentRank, pointsDelta)
        newRow == RankUpdateRow(currentRank, newRank, isWin)
    IN IF ~(updateOk /\ RankRowValid(newRow))
         THEN [table |-> got.table, change |-> << >>]
       ELSE [table |-> (got.table \ {currentRank}) \cup {newRow},
             change |-> << [before |-> before, after |-> newRank,
                            pointsDelta |-> pointsDelta,
                            promoted |-> getTierValue(newRank.tier, newRank.division)
                                          > getTierValue(before.tier, before.division),
                            demoted |-> getTierValue(newRank.tier, newRank.division)
                                          < getTierValue(before.tier, before.division)] >>]

\* The UPDATE ... .eq('user_id', userId) of the two heart writes
HeartsUpdate(table, userId, newHearts, t) ==
  {IF r.user_id = userId
     THEN [r EXCEPT !.online_hearts = newHearts,
                    !.hearts_recharged_at =
                       IF newHearts < MAX_ONLINE_HEARTS THEN << t >> ELSE << >>]
     ELSE r : r \in table}

\* A recharge that counts an interval only once more than the interval has
\* passed, where the code counts it at exactly the interval.
rechargeHeartsIfNeeded_StrictInterval(table, userId, rank, t, writeOk) ==
  IF rank.online_hearts >= MAX_ONLINE_HEARTS THEN [table |-> table, rank |-> rank]
  ELSE IF rank.hearts_recharged_at = << >> THEN [table |-> table, rank |-> rank]
  ELSE
    LET lastRecharge == rank.hearts_recharged_at[1]
        elapsed == t - lastRecharge
        heartsToAdd == (elapsed - 1) \div ONLINE_HEART_RECHARGE_MS
        newHearts == Min(MAX_ONLINE_HEARTS, rank.online_hearts + heartsToAdd)
    IN IF heartsToAdd <= 0 THEN [table |-> table, rank |-> rank]
       ELSE [table |-> IF writeOk THEN HeartsUpdate(table, userId, newHearts, t) ELSE table,
             rank |-> [rank EXCEPT !.online_hearts = newHearts]]

\* rechargeHeartsIfNeeded(userId, rank) at time t: the table after its write
\* (whose outcome the code does not look at) and the PlayerRank it returns
rechargeHeartsIfNeeded(table, userId, rank, t, writeOk) ==
  IF rank.online_hearts >= MAX_ONLINE_HEARTS THEN [table |-> table, rank |-> rank]
  ELSE IF rank.hearts_recharged_at = << >> THEN [table |-> table, rank |-> rank]
  ELSE
    LET lastRecharge == rank.hearts_recharged_at[1]
        elapsed == t - lastRecharge
        heartsToAdd == elapsed \div ONLINE_HEART_RECHARGE_MS
        newHearts == Min(MAX_ONLINE_HEARTS, rank.online_hearts + heartsToAdd)
    IN IF heartsToAdd <= 0 THEN [table |-> table, rank |-> rank]
       ELSE [table |-> IF writeOk THEN HeartsUpdate(table, userId, newHearts, t) ELSE table,
             rank |-> [rank EXCEPT !.online_hearts = newHearts]]

\* A useOnlineHeart without the two `onlineHearts <= 0` returns.
useOnlineHeart_NoZeroTest(table, userId, t, fetchOk, insertOk, rechargeOk, updateOk) ==
  LET got == getOrCreatePlayerRank(table, userId, fetchOk, insertOk) IN
  IF got.rank = << >>
    THEN [table |-> got.table, result |-> FALSE]
  ELSE
    LET re == rechargeHeartsIfNeeded(got.table, userId, got.rank[1], t, rechargeOk)
        newHearts == re.rank.online_hearts - 1
    IN IF updateOk
         THEN [table |-> HeartsUpdate(re.table, userId, newHearts, t), result |-> TRUE]
         ELSE [table |-> re.table, result |-> FALSE]

\* useOnlineHeart(userId) at time t: the new table and the boolean returned
useOnlineHeart(table, userId, t, fetchOk, insertOk, rechargeOk, updateOk) ==
  LET got == getOrCreatePlayerRank(table, userId, fetchOk, insertOk) IN
  IF got.rank = << >> \/ got.rank[1].online_hearts <= 0
    THEN [table |-> got.table, result |-> FALSE]
  ELSE
    LET re == rechargeHeartsIfNeeded(got.table, userId, got.rank[1], t, rechargeOk) IN
    IF re.rank.online_hearts <= 0 THEN [table |-> re.table, result |-> FALSE]
    ELSE
      LET newHearts == re.rank.online_hearts - 1 IN
      IF updateOk
        THEN [table |-> HeartsUpdate(re.table, userId, newHearts, t), result |-> TRUE]
        ELSE [table |-> re.table, result |-> FALSE]

\* getOnlineHearts(userId) at time t: the new table and {hearts, nextRechargeIn}
\* (<< >> for a null nextRechargeIn)
getOnlineHearts(table, userId, t, fetchOk, insertOk, rechargeOk) ==
  LET got == getOrCreatePlayerRank(table, userId, fetchOk, insertOk) IN
  IF got.rank = << >>
    THEN [table |-> got.table, result |-> [hearts |-> 0, nextRechargeIn |-> << >>]]
  ELSE
    LET re == rechargeHeartsIfNeeded(got.table, userId, got.rank[1], t, rechargeOk)
        r == re.rank
    IN [table |-> re.table,
        result |-> [hearts |-> r.online_hearts,
                    nextRechargeIn |->
                      IF r.online_hearts < MAX_ONLINE_HEARTS /\ r.hearts_recharged_at # << >>
                        THEN << Max(0, r.hearts_recharged_at[1] + ONLINE_HEART_RECHARGE_MS - t) >>
                        ELSE << >>]]

(***************************************************************************)
(* Rank-store actions: one call of the signed-in user per step             *)
(***************************************************************************)
NoCall == [op |-> "none"]

\* match results so far on the user's row
ResultsOf(table, userId) ==
  IF RowsOf(table, userId) = {} THEN 0
  ELSE LET r == CHOOSE x \in RowsOf(table, userId) : TRUE IN r.wins + r.losses

\* the answers of the store to one request: it may fail; a request that is not
\* issued has no answer to choose
Answers(issued) == IF issued THEN BOOLEAN ELSE {TRUE}

NoRow(table, userId) == RowsOf(table, userId) = {}

GetOrCreatePlayerRank ==
  \E fetchOk \in BOOLEAN :
  \E insertOk \in Answers(fetchOk /\ NoRow(player_ranks, RankUser)) :
    LET got == getOrCreatePlayerRank(player_ranks, RankUser, fetchOk, insertOk) IN
    /\ player_ranks' = got.table
    /\ call' = [op |-> "getOrCreatePlayerRank",
                io |-> [fetch |-> fetchOk, insert |-> insertOk], result |-> got.rank]
    /\ UNCHANGED now

\* history of consecutive updateRankAfterMatch calls: the rank before the
\* latest recorded win and the number of losses recorded since (<< >> before
\* any win); a call that records nothing leaves it as it is
SinceWin(c, isWin, change) ==
  LET prev == IF c.op = "updateRankAfterMatch" THEN c.sinceWin ELSE << >> IN
  IF change = << >> THEN prev
  ELSE IF isWin THEN << [from |-> change[1].before, losses |-> 0] >>
  ELSE IF prev = << >> THEN << >>
  ELSE << [prev[1] EXCEPT !.losses = @ + 1] >>

UpdateRankAfterMatch ==
  \E isWin, fetchOk \in BOOLEAN :
  \E insertOk \in Answers(fetchOk /\ NoRow(player_ranks, RankUser)) :
  \E updateOk \in Answers(fetchOk /\ insertOk) :
    LET res == updateRankAfterMatch(player_ranks, RankUser, isWin, fetchOk, insertOk, updateOk) IN
    /\ ResultsOf(player_ranks, RankUser) < MaxResults
    /\ player_ranks' = res.table
    /\ call' = [op |-> "updateRankAfterMatch", isWin |-> isWin,
                io |-> [fetch |-> fetchOk, insert |-> insertOk, update |-> updateOk],
                result |-> res.change,
                sinceWin |-> SinceWin(call, isWin, res.change)]
    /\ UNCHANGED now

UseOnlineHeart ==
  \E fetchOk \in BOOLEAN :
  \E insertOk \in Answers(fetchOk /\ NoRow(player_ranks, RankUser)) :
  \E rechargeOk, updateOk \in Answers(fetchOk /\ insertOk) :
    LET res == useOnlineHeart(player_ranks, RankUser, now, fetchOk, insertOk, rechargeOk, updateOk) IN
    /\ player_ranks' = res.table
    /\ call' = [op |-> "useOnlineHeart",
                io |-> [fetch |-> fetchOk, insert |-> insertOk, recharge |-> rechargeOk,
                        update |-> updateOk],
                result |-> res.result]
    /\ UNCHANGED now

GetOnlineHearts ==
  \E fetchOk \in BOOLEAN :
  \E insertOk \in Answers(fetchOk /\ NoRow(player_ranks, RankUser)) :
  \E rechargeOk \in Answers(fetchOk /\ insertOk) :
    LET res == getOnlineHearts(player_ranks, RankUser, now, fetchOk, insertOk, rechargeOk) IN
    /\ player_ranks' = res.table
    /\ call' = [op |-> "getOnlineHearts",
                io |-> [fetch |-> fetchOk, insert |-> insertOk, recharge |-> rechargeOk],
                result |-> res.result]
    /\ UNCHANGED now

(***************************************************************************)
(* getOrCreatePlayerRank step by step: two requests of the same user (two   *)
(* tabs, or two callers in one page) run it at the same time.  call is      *)
(* [op |-> "concurrent", req |-> one record per request, rows |-> the       *)
(* number of rows of the user in the table].                                *)
(***************************************************************************)
Requests == {1, 2}

RankUnique_Off(table, userId) == TRUE

\* UNIQUE(user_id) of player_ranks: an insert is accepted only when the user
\* has no row
RankUnique(table, userId) == RowsOf(table, userId) = {}

NoRequest == [pc |-> "idle", calls |-> 0, result |-> << >>]

\* a request calls getOrCreatePlayerRank: the select is issued
BeginAccess(i) ==
  /\ call.req[i].pc = "idle"
  /\ call.req[i].calls < MaxAccess
  /\ call' = [call EXCEPT !.req[i] = [pc |-> "select", calls |-> @.calls + 1,
                                       result |-> << >>]]
  /\ UNCHANGED << player_ranks, now >>

\* the select is answered: the existing row is returned; with no row
\* (PGRST116) the insert is issued; any other error returns null
FetchAnswered(i) ==
  /\ call.req[i].pc = "select"
  /\ \E ok \in BOOLEAN :
       LET existing == RowsOf(player_ranks, RankUser) IN
       call' = [call EXCEPT !.req[i] =
                  IF ok /\ Cardinality(existing) = 1
                    THEN [@ EXCEPT !.pc = "idle", !.result = << CHOOSE r \in existing : TRUE >>]
                  ELSE IF ok /\ existing = {}
                    THEN [@ EXCEPT !.pc = "insert"]
                  ELSE [@ EXCEPT !.pc = "idle", !.result = << >>]]
  /\ UNCHANGED << player_ranks, now >>

\* the insert is applied and the new row returned, or it fails (createError)
\* and null is returned
CreateAnswered(i) ==
  /\ call.req[i].pc = "insert"
  /\ \E ok \in BOOLEAN :
       IF ok /\ RankUnique(player_ranks, RankUser)
         THEN /\ player_ranks' = player_ranks \cup {DefaultRank(RankUser)}
              /\ call' = [call EXCEPT !.req[i] = [@ EXCEPT !.pc = "idle",
                                                            !.result = << DefaultRank(RankUser) >>],
                                       !.rows = @ + 1]
         ELSE /\ call' = [call EXCEPT !.req[i] = [@ EXCEPT !.pc = "idle", !.result = << >>]]
              /\ UNCHANGED player_ranks
  /\ UNCHANGED now

\* time passes between two calls: just under, exactly, or just over one
\* recharge interval
AdvanceClock ==
  \E d \in {ONLINE_HEART_RECHARGE_MS - 1, ONLINE_HEART_RECHARGE_MS, ONLINE_HEART_RECHARGE_MS + 1} :
    /\ now + d <= MaxIntervals * ONLINE_HEART_RECHARGE_MS
    /\ now' = now + d
    /\ UNCHANGED << player_ranks, call >>

(***************************************************************************)
(* Matchmaking (matchmaking.ts) over public.matchmaking_queue and          *)
(* public.matches.  Each player runs one client; the globals of            *)
(* matchmaking.ts are per client.                                          *)
(***************************************************************************)
\* A tier range without the tier below.
getMatchableTiers_NoLower(tier) ==
  LET Push(i) == IF i >= 0 /\ i < Len(TIER_ORDER) THEN << TierAt(i) >> ELSE << >>
  IN Push(TierIndex(tier)) \o Push(TierIndex(tier) + 1)

\* getMatchableTiers(tier): the loop over index - 1, index, index + 1 pushes
\* the tiers that exist
getMatchableTiers(tier) ==
  LET Push(i) == IF i >= 0 /\ i < Len(TIER_ORDER) THEN << TierAt(i) >> ELSE << >>
  IN Push(TierIndex(tier) - 1) \o Push(TierIndex(tier)) \o Push(TierIndex(tier) + 1)

\* the tier of the rank that startOnlineBattle loads and hands to
\* joinMatchmaking; the ranks do not change while matchmaking runs
TierOf(p) == (CHOOSE r \in player_ranks : r.user_id = p).tier

\* Row-level policies of matchmaking_queue: UPDATE and DELETE reach only rows
\* whose user_id is the caller's (USING auth.uid() = user_id); rows the policy
\* hides are skipped without an error.
QueueRowWritable(actor, row) == actor = row.user_id

\* .delete().eq('user_id', userId) issued by `actor`
QueueDelete(q, actor, userId) ==
  LET Keep(r) == ~(r.user_id = userId /\ QueueRowWritable(actor, r)) IN SelectSeq(q, Keep)

\* the row joinMatchmaking inserts
QueueEntry(userId, tier) == [user_id |-> userId, tier |-> tier, status |-> "waiting"]

QueueHas_Never(q, userId) == FALSE

\* UNIQUE(user_id) of matchmaking_queue
QueueHas(q, userId) == \E i \in 1..Len(q) : q[i].user_id = userId

Candidates_Newest(q, userId, matchableTiers) ==
  LET Match(r) == /\ r.user_id # userId
                  /\ r.status = "waiting"
                  /\ \E k \in 1..Len(matchableTiers) : matchableTiers[k] = r.tier
      found == SelectSeq(q, Match)
  IN IF found = << >> THEN << >> ELSE << found[Len(found)] >>

\* the candidates of tryFindOpponent: .neq('user_id', userId).eq('status',
\* 'waiting').in('tier', matchableTiers).order('created_at').limit(1)
Candidates(q, userId, matchableTiers) ==
  LET Match(r) == /\ r.user_id # userId
                  /\ r.status = "waiting"
                  /\ \E k \in 1..Len(matchableTiers) : matchableTiers[k] = r.tier
      found == SelectSeq(q, Match)
  IN IF found = << >> THEN << >> ELSE << found[1] >>

\* .update({status: 'matched'}).in('user_id', [userId, opponent]).eq('status', 'waiting')
FlipToMatched(q, actor, ids) ==
  [i \in 1..Len(q) |->
     IF q[i].user_id \in ids /\ q[i].status = "waiting" /\ QueueRowWritable(actor, q[i])
       THEN [q[i] EXCEPT !.status = "matched"] ELSE q[i]]

\* .update({status: 'waiting'}).in('user_id', [userId, opponent])
RollbackToWaiting(q, actor, ids) ==
  [i \in 1..Len(q) |->
     IF q[i].user_id \in ids /\ QueueRowWritable(actor, q[i])
       THEN [q[i] EXCEPT !.status = "waiting"] ELSE q[i]]

\* the row tryFindOpponent inserts into matches
MatchRow(userId, opponentId) ==
  [player1_id |-> userId, player2_id |-> opponentId, player1_ready |-> FALSE,
   player2_ready |-> FALSE, status |-> "pending", winner_id |-> << >>,
   player1_score |-> 0, player2_score |-> 0]

\* matchmaking.ts globals of one client.  Each of the four is a handle (held
\* or null) plus the timers / subscriptions that are still alive although the
\* variable no longer refers to them.
NoHandles ==
  [matchmakingTimeout |-> FALSE, searchInterval |-> FALSE,
   matchmakingChannel |-> FALSE, queueChannel |-> FALSE,
   orphanTimeouts |-> 0, orphanIntervals |-> 0,
   orphanMatchChannels |-> 0, orphanQueueChannels |-> 0]

\* A cleanup that clears the two timers and leaves the channels subscribed.
cleanup_TimersOnly(h) ==
  [h EXCEPT !.matchmakingTimeout = FALSE, !.searchInterval = FALSE]

\* cleanup(): clears and nulls the four handles
cleanup(h) ==
  [h EXCEPT !.matchmakingTimeout = FALSE, !.searchInterval = FALSE,
            !.matchmakingChannel = FALSE, !.queueChannel = FALSE]

\* the assignments of joinMatchmaking: a handle that is overwritten keeps its
\* timer / subscription alive
AfterJoin(h) ==
  [matchmakingTimeout |-> TRUE, searchInterval |-> TRUE,
   matchmakingChannel |-> TRUE, queueChannel |-> TRUE,
   orphanTimeouts |-> h.orphanTimeouts + (IF h.matchmakingTimeout THEN 1 ELSE 0),
   orphanIntervals |-> h.orphanIntervals + (IF h.searchInterval THEN 1 ELSE 0),
   orphanMatchChannels |-> h.orphanMatchChannels + (IF h.matchmakingChannel THEN 1 ELSE 0),
   orphanQueueChannels |-> h.orphanQueueChannels + (IF h.queueChannel THEN 1 ELSE 0)]

MatchSubscriptions(h) == h.orphanMatchChannels + (IF h.matchmakingChannel THEN 1 ELSE 0)

QueueSubscriptions(h) == h.orphanQueueChannels + (IF h.queueChannel THEN 1 ELSE 0)

\* the row of `userId` is in the queue with status 'waiting'
OwnWaiting(q, userId) ==
  \E i \in 1..Len(q) : q[i].user_id = userId /\ q[i].status = "waiting"

\* one running call of tryFindOpponent: the await it is suspended at, the
\* candidate it selected, the id of the Match row it inserted.  Two fields are
\* history: sawWaiting, the caller's own entry was 'waiting' when the call was
\* made, when its select was answered or when its update was applied;
\* waitingAtFlip, how many of the two entries were 'waiting' when the update
\* was applied (the update changes at most that many rows).
NewTask(p) ==
  [pc |-> "select", opponent |-> "", match |-> 0,
   matchableTiers |-> getMatchableTiers(TierOf(p)),
   sawWaiting |-> OwnWaiting(matchmaking_queue, p), waitingAtFlip |-> 0]

\* the entries of `ids` that have status 'waiting'
WaitingAmong(q, ids) ==
  Cardinality({i \in 1..Len(q) : q[i].user_id \in ids /\ q[i].status = "waiting"})

\* the calls of one client are a bag: they have no identity in the program
TaskPut(B, t) == B (+) SetToBag({t})

TaskTake(B, t) == B (-) SetToBag({t})

Running(p) == BagCardinality(tasks[p])

\* a call of tryFindOpponent: its select is issued
Spawn(p) == TaskPut(tasks[p], NewTask(p))

\* the call `t` of client p moves on to `u`
Step(p, t, u) ==
  TaskPut(TaskTake(tasks[p], t),
          [u EXCEPT !.sawWaiting = @ \/ OwnWaiting(matchmaking_queue, p)])

RECURSIVE Repeat(_, _)
Repeat(x, n) == IF n <= 0 THEN << >> ELSE << x >> \o Repeat(x, n - 1)

NoCallbacks == [onMatchFound |-> << >>, onTimeout |-> 0, onError |-> 0]

\* joining[p].replaced is history: the status of the entry that the DELETE of
\* the client's latest joinMatchmaking removed ("" when it removed none).
\* startOnlineBattle shows the matchmaking modal, then calls joinMatchmaking;
\* first await of joinMatchmaking: the DELETE of the caller's old entry is issued
JoinStart(p) ==
  /\ joining[p].pc = "idle"
  /\ joining[p].calls < MaxJoins
  /\ ~joining[p].modal
  /\ joining' = [joining EXCEPT ![p] = [pc |-> "delete", calls |-> @.calls + 1,
                                        modal |-> TRUE, replaced |-> ""]]
  /\ UNCHANGED << matchmaking_queue, matches, mm, tasks, leaving, inbox, queueEvents, cb >>

\* the status of the entry of `userId`, "" without an entry
StatusOf(q, userId) ==
  IF \E i \in 1..Len(q) : q[i].user_id = userId
    THEN q[CHOOSE i \in 1..Len(q) : q[i].user_id = userId].status
    ELSE ""

\* a run of startOnlineBattle that was started before the modal was shown
\* (the button is not disabled and the function awaits three store calls before
\* it shows the modal) reaches joinMatchmaking while an attempt is under way
JoinAgain(p) ==
  /\ joining[p].pc = "idle"
  /\ joining[p].calls < MaxJoins + MaxRejoins
  /\ joining[p].modal
  /\ joining' = [joining EXCEPT ![p].pc = "delete", ![p].calls = @ + 1]
  /\ UNCHANGED << matchmaking_queue, matches, mm, tasks, leaving, inbox, queueEvents, cb >>

\* the DELETE is applied (or fails: its result is not looked at); the INSERT
\* is issued
JoinDelete(p) ==
  /\ joining[p].pc = "delete"
  /\ \E ok \in BOOLEAN :
       /\ matchmaking_queue' = IF ok THEN QueueDelete(matchmaking_queue, p, p)
                               ELSE matchmaking_queue
       /\ joining' = [joining EXCEPT ![p].pc = "insert",
                                     ![p].replaced = IF ok THEN StatusOf(matchmaking_queue, p)
                                                     ELSE ""]
  /\ UNCHANGED << matches, mm, tasks, leaving, inbox, queueEvents, cb >>

\* the INSERT is applied (or fails); on success the rest of joinMatchmaking
\* runs: both subscriptions, the immediate search, the interval, the timeout.
\* On failure callbacks.onError, which hides the modal.
JoinInsert(p) ==
  /\ joining[p].pc = "insert"
  /\ \E ok \in BOOLEAN :
       IF ok /\ ~QueueHas(matchmaking_queue, p)
         THEN /\ Running(p) < MaxSearches
              /\ matchmaking_queue' = Append(matchmaking_queue, QueueEntry(p, TierOf(p)))
              /\ mm' = [mm EXCEPT ![p] = AfterJoin(@)]
              /\ tasks' = [tasks EXCEPT ![p] =
                             TaskPut(@, [NewTask(p) EXCEPT !.sawWaiting = TRUE])]
              /\ queueEvents' =
                   [q \in Players |->
                      IF q # p /\ QueueSubscriptions(mm[q]) > 0
                        THEN queueEvents[q] + 1 ELSE queueEvents[q]]
              /\ joining' = [joining EXCEPT ![p].pc = "idle"]
              /\ UNCHANGED cb
         ELSE /\ cb' = [cb EXCEPT ![p].onError = @ + 1]
              /\ joining' = [joining EXCEPT ![p].pc = "idle", ![p].modal = FALSE]
              /\ UNCHANGED << matchmaking_queue, mm, tasks, queueEvents >>
  /\ UNCHANGED << matches, leaving, inbox >>

\* a tick of the 5 s search interval (the held one or an orphaned one)
Poll(p) ==
  /\ mm[p].searchInterval \/ mm[p].orphanIntervals > 0
  /\ Running(p) < MaxSearches
  /\ tasks' = [tasks EXCEPT ![p] = Spawn(p)]
  /\ UNCHANGED << matchmaking_queue, matches, mm, joining, leaving, inbox, queueEvents, cb >>

\* an INSERT notification of the queue table reaches the client
QueueChange(p) ==
  /\ queueEvents[p] > 0
  /\ queueEvents' = [queueEvents EXCEPT ![p] = @ - 1]
  /\ IF QueueSubscriptions(mm[p]) > 0
       THEN /\ Running(p) < MaxSearches
            /\ tasks' = [tasks EXCEPT ![p] = Spawn(p)]
       ELSE UNCHANGED tasks
  /\ UNCHANGED << matchmaking_queue, matches, mm, joining, leaving, inbox, cb >>

\* tryFindOpponent: the candidate select is answered; without a candidate (or
\* with an error) the call returns, else the conditional status update is issued
FindSelect(p, t) ==
  /\ t.pc = "select"
  /\ \E ok \in BOOLEAN :
       LET candidates == IF ok THEN Candidates(matchmaking_queue, p, t.matchableTiers) ELSE << >> IN
       tasks' = [tasks EXCEPT ![p] =
                   IF candidates = << >> THEN TaskTake(@, t)
                   ELSE Step(p, t, [t EXCEPT !.pc = "flip",
                                             !.opponent = candidates[1].user_id])]
  /\ UNCHANGED << matchmaking_queue, matches, mm, joining, leaving, inbox, queueEvents, cb >>

\* the status update is applied; only an error of the store ends the call
\* here.  Then the caller's display_name is read and the Match insert is issued.
FindFlip(p, t) ==
  /\ t.pc = "flip"
  /\ \E ok \in BOOLEAN :
       IF ok
         THEN /\ matchmaking_queue' = FlipToMatched(matchmaking_queue, p, {p, t.opponent})
              /\ tasks' = [tasks EXCEPT ![p] =
                             Step(p, t, [t EXCEPT !.pc = "insert",
                                                  !.waitingAtFlip =
                                                     WaitingAmong(matchmaking_queue,
                                                                  {p, t.opponent})])]
         ELSE /\ tasks' = [tasks EXCEPT ![p] = TaskTake(@, t)]
              /\ UNCHANGED matchmaking_queue
  /\ UNCHANGED << matches, mm, joining, leaving, inbox, queueEvents, cb >>

\* the Match insert is applied: on success the match_found send is issued,
\* on failure the rollback update
FindInsert(p, t) ==
  /\ t.pc = "insert"
  /\ \E ok \in BOOLEAN :
       IF ok
         THEN /\ Len(matches) < MaxMatches
              /\ matches' = Append(matches, MatchRow(p, t.opponent))
              /\ tasks' = [tasks EXCEPT ![p] =
                             TaskPut(TaskTake(@, t),
                                     [t EXCEPT !.pc = "notify", !.match = Len(matches) + 1])]
         ELSE /\ tasks' = [tasks EXCEPT ![p] =
                             TaskPut(TaskTake(@, t), [t EXCEPT !.pc = "rollback"])]
              /\ UNCHANGED matches
  /\ UNCHANGED << matchmaking_queue, mm, joining, leaving, inbox, queueEvents, cb >>

\* the rollback update is applied
FindRollback(p, t) ==
  /\ t.pc = "rollback"
  /\ \E ok \in BOOLEAN :
       matchmaking_queue' =
         IF ok THEN RollbackToWaiting(matchmaking_queue, p, {p, t.opponent})
         ELSE matchmaking_queue
  /\ tasks' = [tasks EXCEPT ![p] = TaskTake(@, t)]
  /\ UNCHANGED << matches, mm, joining, leaving, inbox, queueEvents, cb >>

\* the match_found broadcast leaves for the opponent's channel; then
\* cleanup() and callbacks.onMatchFound(matchData), which hides the modal
FindNotify(p, t) ==
  /\ t.pc = "notify"
  /\ inbox' = IF MatchSubscriptions(mm[t.opponent]) > 0
                THEN [inbox EXCEPT ![t.opponent] = @ \cup {t.match}]
                ELSE inbox
  /\ mm' = [mm EXCEPT ![p] = cleanup(@)]
  /\ cb' = [cb EXCEPT ![p].onMatchFound = Append(@, t.match)]
  /\ joining' = [joining EXCEPT ![p].modal = FALSE]
  /\ tasks' = [tasks EXCEPT ![p] = TaskTake(@, t)]
  /\ UNCHANGED << matchmaking_queue, matches, leaving, queueEvents >>

\* a match_found broadcast arrives: every subscription of the client that is
\* still alive runs cleanup() and callbacks.onMatchFound(match)
MatchFound(p, m) ==
  /\ m \in inbox[p]
  /\ inbox' = [inbox EXCEPT ![p] = @ \ {m}]
  /\ IF MatchSubscriptions(mm[p]) > 0
       THEN /\ mm' = [mm EXCEPT ![p] = cleanup(@)]
            /\ cb' = [cb EXCEPT ![p].onMatchFound = @ \o Repeat(m, MatchSubscriptions(mm[p]))]
            /\ joining' = [joining EXCEPT ![p].modal = FALSE]
       ELSE UNCHANGED << mm, cb, joining >>
  /\ UNCHANGED << matchmaking_queue, matches, tasks, leaving, queueEvents >>

\* the matchmaking timeout fires (the held one, else an orphaned one):
\* cleanup(); leaveMatchmaking(user.id) up to its DELETE; callbacks.onTimeout(),
\* which hides the modal
Timeout(p) ==
  /\ mm[p].matchmakingTimeout \/ mm[p].orphanTimeouts > 0
  /\ \E held \in BOOLEAN :
       /\ held => mm[p].matchmakingTimeout
       /\ ~held => mm[p].orphanTimeouts > 0
       /\ mm' = [mm EXCEPT ![p] =
                   IF held THEN cleanup(@)
                   ELSE cleanup([@ EXCEPT !.orphanTimeouts = @ - 1])]
  /\ leaving' = [leaving EXCEPT ![p] = @ + 1]
  /\ cb' = [cb EXCEPT ![p].onTimeout = @ + 1]
  /\ joining' = [joining EXCEPT ![p].modal = FALSE]
  /\ UNCHANGED << matchmaking_queue, matches, tasks, inbox, queueEvents >>

\* the cancel button of the matchmaking modal: the modal is hidden, then
\* leaveMatchmaking(userId) up to its await: cleanup(), the DELETE is issued
Leave(p) ==
  /\ joining[p].modal
  /\ joining' = [joining EXCEPT ![p].modal = FALSE]
  /\ mm' = [mm EXCEPT ![p] = cleanup(@)]
  /\ leaving' = [leaving EXCEPT ![p] = @ + 1]
  /\ UNCHANGED << matchmaking_queue, matches, tasks, inbox, queueEvents, cb >>

\* the click handler of the cancel button runs again although the modal is
\* already hidden (cancelMatchmaking tests nothing): leaveMatchmaking(userId)
\* up to its await
LeaveAgain(p) ==
  /\ ~joining[p].modal
  /\ leaving[p] < MaxLeaves
  /\ mm' = [mm EXCEPT ![p] = cleanup(@)]
  /\ leaving' = [leaving EXCEPT ![p] = @ + 1]
  /\ UNCHANGED << matchmaking_queue, matches, joining, tasks, inbox, queueEvents, cb >>

\* the DELETE of leaveMatchmaking is applied (or fails: its result is not
\* looked at)
LeaveDelete(p) ==
  /\ leaving[p] > 0
  /\ leaving' = [leaving EXCEPT ![p] = @ - 1]
  /\ \E ok \in BOOLEAN :
       matchmaking_queue' = IF ok THEN QueueDelete(matchmaking_queue, p, p)
                            ELSE matchmaking_queue
  /\ UNCHANGED << matches, mm, joining, tasks, inbox, queueEvents, cb >>

(***************************************************************************)
(* Battle: the orchestrator (battleGame.ts), its BattleChannel              *)
(* (battleChannel.ts), the callers in main.ts, the realtime channel         *)
(* match:<id> with its presence set, and the store calls of matchmaking.ts  *)
(* that the orchestrator makes.  The battle is over Match row 1.            *)
(***************************************************************************)
BattleMatch == 1

\* battleGame.ts: battleState = null
NoSession ==
  [exists |-> FALSE, opponentId |-> "", isStarted |-> FALSE,
   countdown |-> COUNTDOWN_SECONDS, result |-> "pending",
   incomingGarbage |-> 0, garbageSent |-> 0]

\* the battleState that initBattleGame builds
NewSession(match, myUserId) ==
  [exists |-> TRUE,
   opponentId |-> IF match.player1_id = myUserId THEN match.player2_id ELSE match.player1_id,
   isStarted |-> FALSE, countdown |-> COUNTDOWN_SECONDS, result |-> "pending",
   incomingGarbage |-> 0, garbageSent |-> 0]

\* battleChannel = null, and a BattleChannel as its constructor leaves it.
\* disconnectTimeout is "null", "pending" (set, timer armed) or "fired" (still
\* set, the timer has run: the field is not reset by the timer callback)
NoBattleChannel ==
  [exists |-> FALSE, channel |-> "null", syncInterval |-> FALSE, disconnectTimeout |-> "null"]

NewBattleChannel == [NoBattleChannel EXCEPT !.exists = TRUE]

\* countdownInterval (the id of the interval it refers to, 0 for null), the
\* intervals that are alive with the `count` of their closure, ids handed out
NoCountdowns == [countdownInterval |-> 0, alive |-> {}, made |-> 0]

NoFlows == [connect |-> "idle", starting |-> 0, ending |-> "idle",
            isWin |-> FALSE, calls |-> 0, cleanups |-> 0, readies |-> 0]

NoGame == [isBattleMode |-> FALSE, running |-> "idle", resultModal |-> FALSE]

\* callbacks invoked and calls made since initBattleGame.  result: the
\* MatchResult the last onBattleEnd call was given (isWin and rankChange);
\* received, cancelled, drained, attacked: the lines of the garbage attacks
\* handled, the lines onLinesCleared took off incomingGarbage, the lines
\* applyPendingGarbage returned and the lines handed to sendGarbageAttack, in
\* total; applied: what the last applyPendingGarbage call returned;
\* synthesized: the
\* callbacks.onOpponentGameOver() calls made by the disconnect timer;
\* reconnects: the callbacks.onOpponentReconnect() calls since the last
\* callbacks.onOpponentDisconnect() call; absentIgnored: the presence syncs
\* without the opponent that arrived while the disconnect timer was pending
NoEvents ==
  [onBattleStart |-> 0, onBattleEnd |-> 0, endBattle |-> 0,
   onOpponentDisconnect |-> 0, reconnects |-> 0, synthesized |-> 0, absentIgnored |-> 0,
   result |-> << >>,
   received |-> 0, cancelled |-> 0, drained |-> 0, attacked |-> 0, applied |-> << >>]

BattleIdle ==
  /\ battleState = [p \in Players |-> NoSession]
  /\ battleChannel = [p \in Players |-> NoBattleChannel]
  /\ countdowns = [p \in Players |-> NoCountdowns]
  /\ flows = [p \in Players |-> NoFlows]
  /\ game = [p \in Players |-> NoGame]
  /\ wire = [p \in Players |-> << >>]
  /\ net = [tracked |-> {}, up |-> Players, drops |-> 0]
  /\ match_history = {}
  /\ events = [p \in Players |-> NoEvents]

\* myUserId < opponentId on the ids (PlayerOrder lists them in string order)
IdLess(x, y) ==
  \E i \in 1..Len(PlayerOrder) : \E j \in 1..Len(PlayerOrder) :
    PlayerOrder[i] = x /\ PlayerOrder[j] = y /\ i < j

\* the players of the battle
Battlers == {matches[BattleMatch].player1_id, matches[BattleMatch].player2_id}

\* a websocket message: a presence sync with the presence state it brings, or
\* a broadcast event (countdown carries count)
Message(type, present, count) == [type |-> type, present |-> present, count |-> count]

\* the presence state of the channel: the tracked users whose socket is up
Present(n) == n.tracked \cap n.up

\* the client is subscribed and reachable
Listening(bc, n, q) == bc[q].exists /\ bc[q].channel = "subscribed" /\ q \in n.up

\* message m is queued for every client of `to`
Queue(w, to, m) == [q \in Players |-> IF q \in to THEN Append(w[q], m) ELSE w[q]]

\* a presence change reaches every subscribed client as a sync
SyncAll(w, bc, n) ==
  Queue(w, {q \in Players : Listening(bc, n, q)}, Message("sync", Present(n), 0))

\* channel.send of a broadcast event: it reaches the other subscribed
\* clients, not the sender; nothing is sent without a channel or a socket
Broadcast(w, bc, n, from, type, count) ==
  IF bc[from].exists /\ bc[from].channel # "null" /\ from \in n.up
    THEN Queue(w, {q \in Players : q # from /\ Listening(bc, n, q)}, Message(type, {}, count))
    ELSE w

\* the frame of the battle actions
mmRest == << matchmaking_queue, mm, joining, tasks, leaving, inbox, queueEvents, cb >>

rankRest == << now, call >>

\* main.ts handleMatchFound up to its first await: initBattleGame, then
\* connectBattle -> BattleChannel.connect, whose subscribe is issued.  A client
\* is in one battle at a time.
HandleMatchFound(p) ==
  /\ p \in Battlers
  /\ flows[p].calls < MaxBattles
  /\ ~battleState[p].exists
  /\ battleState' = [battleState EXCEPT ![p] = NewSession(matches[BattleMatch], p)]
  /\ battleChannel' = [battleChannel EXCEPT ![p] = [NewBattleChannel EXCEPT !.channel = "joining"]]
  /\ flows' = [flows EXCEPT ![p].connect = "subscribing", ![p].calls = @ + 1]
  /\ game' = [game EXCEPT ![p].isBattleMode = TRUE]
  /\ events' = [events EXCEPT ![p] = NoEvents]
  /\ UNCHANGED << countdowns, wire, net, match_history >>
  /\ UNCHANGED << player_ranks, matches, mmRest, rankRest >>

\* matches.update by id, as the store applies it
MatchUpdate(rows, id, Change(_)) ==
  [i \in 1..Len(rows) |-> IF i = id THEN Change(rows[i]) ELSE rows[i]]

\* setPlayerReady: the row's player ids are read and the ready column of the
\* caller is set
setPlayerReady(rows, id, userId) ==
  LET Mark(r) == IF r.player1_id = userId THEN [r EXCEPT !.player1_ready = TRUE]
                 ELSE [r EXCEPT !.player2_ready = TRUE]
  IN MatchUpdate(rows, id, Mark)

\* the subscribe callback.  SUBSCRIBED: track() puts the user into the
\* presence set; connect resolves true and handleMatchFound goes on to
\* sendReady: the player_ready broadcast, then setPlayerReady (nothing reads
\* the ready columns, so its write is applied here).
\* CHANNEL_ERROR or TIMED_OUT: connect resolves false and handleMatchFound
\* gives up (isBattleMode = false).
Connected(p) ==
  /\ flows[p].connect = "subscribing"
  /\ battleChannel[p].exists
  /\ \E ok \in BOOLEAN :
       IF ok /\ p \in net.up
         THEN LET bc == [battleChannel EXCEPT ![p].channel = "subscribed"]
                  n == [net EXCEPT !.tracked = @ \cup {p}]
              IN /\ battleChannel' = bc
                 /\ net' = n
                 /\ wire' = Broadcast(SyncAll(wire, bc, n), bc, n, p, "player_ready", 0)
                 /\ flows' = [flows EXCEPT ![p].connect = "done"]
                 /\ matches' = setPlayerReady(matches, BattleMatch, p)
                 /\ UNCHANGED game
         ELSE /\ flows' = [flows EXCEPT ![p].connect = "failed"]
              /\ game' = [game EXCEPT ![p].isBattleMode = FALSE]
              /\ UNCHANGED << battleChannel, net, wire, matches >>
  /\ UNCHANGED << battleState, countdowns, match_history, events >>
  /\ UNCHANGED << player_ranks, mmRest, rankRest >>

\* the head of the client's websocket queue is a message of this type
Next_(p, type) == wire[p] # << >> /\ Head(wire[p]).type = type

\* the client's channel handlers run (channel set and subscribed)
Receiving(p) == battleChannel[p].exists /\ battleChannel[p].channel = "subscribed"

\* startDisconnectTimer: `if (this.disconnectTimeout) return`
TimerSet_Never(bc) == FALSE

TimerSet(bc) == bc.disconnectTimeout # "null"

\* clearDisconnectTimer
clearDisconnectTimer(bc) == [bc EXCEPT !.disconnectTimeout = "null"]

\* handleOpponentGameOver: `if (!battleState || battleState.result !== 'pending') return`
PendingResult_Always(bs) == bs.exists

PendingResult(bs) == bs.exists /\ bs.result = "pending"

\* endBattle up to its first await: the state sync is stopped and the
\* `finished` write is issued.  bc and ev are the channel and the events as
\* the caller leaves them.
EndBattle(p, isWin, bc, ev) ==
  /\ battleChannel' = [bc EXCEPT ![p].syncInterval = IF bc[p].exists THEN FALSE ELSE @]
  /\ flows' = [flows EXCEPT ![p].ending = "status", ![p].isWin = isWin]
  /\ events' = [ev EXCEPT ![p].endBattle = @ + 1]

\* handleOpponentGameOver
HandleOpponentGameOver(p, bc, ev) ==
  IF PendingResult(battleState[p])
    THEN /\ battleState' = [battleState EXCEPT ![p].result = "win"]
         /\ EndBattle(p, TRUE, bc, ev)
    ELSE /\ battleChannel' = bc
         /\ events' = ev
         /\ UNCHANGED << battleState, flows >>

\* a presence sync arrives: handlePresenceSync with the presence state it brings
DeliverSync(p) ==
  /\ Next_(p, "sync")
  /\ wire' = [wire EXCEPT ![p] = Tail(@)]
  /\ LET opponentPresent == Head(wire[p]).present \ {p} # {}
         bc == battleChannel[p]
     IN IF ~Receiving(p)
          THEN UNCHANGED << battleChannel, events >>
          ELSE IF ~opponentPresent /\ TimerSet(bc)
            THEN /\ events' = [events EXCEPT ![p].absentIgnored =
                                 IF bc.disconnectTimeout = "pending" THEN @ + 1 ELSE @]
                 /\ UNCHANGED battleChannel
            ELSE IF ~opponentPresent
              THEN /\ events' = [events EXCEPT ![p].onOpponentDisconnect = @ + 1,
                                               ![p].reconnects = 0]
                   /\ battleChannel' = [battleChannel EXCEPT ![p].disconnectTimeout = "pending"]
              ELSE /\ battleChannel' = [battleChannel EXCEPT ![p] = clearDisconnectTimer(bc)]
                   /\ events' = [events EXCEPT ![p].reconnects = @ + 1]
  /\ UNCHANGED << battleState, countdowns, flows, game, net, match_history >>
  /\ UNCHANGED << player_ranks, matches, mmRest, rankRest >>

\* the disconnect timer runs out: callbacks.onOpponentGameOver(), that is
\* handleOpponentGameOver; disconnectTimeout keeps the dead handle
DisconnectTimerFires(p) ==
  /\ battleChannel[p].exists
  /\ battleChannel[p].disconnectTimeout = "pending"
  /\ HandleOpponentGameOver(p,
       [battleChannel EXCEPT ![p].disconnectTimeout = "fired"],
       [events EXCEPT ![p].synthesized = @ + 1])
  /\ UNCHANGED << countdowns, game, wire, net, match_history >>
  /\ UNCHANGED << player_ranks, matches, mmRest, rankRest >>

\* startCountdown: a new interval, countdownInterval refers to it
startCountdown(c) ==
  [countdownInterval |-> c.made + 1,
   alive |-> c.alive \cup {[id |-> c.made + 1, count |-> COUNTDOWN_SECONDS]},
   made |-> c.made + 1]

\* a player_ready broadcast arrives: handleOpponentReady; the player with
\* the smaller id starts the countdown
DeliverReady(p) ==
  /\ Next_(p, "player_ready")
  /\ wire' = [wire EXCEPT ![p] = Tail(@)]
  /\ countdowns' =
       IF Receiving(p) /\ battleState[p].exists /\ IdLess(p, battleState[p].opponentId)
         THEN [countdowns EXCEPT ![p] = startCountdown(@)]
         ELSE countdowns
  /\ UNCHANGED << battleState, battleChannel, flows, game, net, match_history, events >>
  /\ UNCHANGED << player_ranks, matches, mmRest, rankRest >>

\* handleCountdown: battleState.countdown = count; onCountdownUpdate
handleCountdown(bs, count) == IF bs.exists THEN [bs EXCEPT !.countdown = count] ELSE bs

\* a countdown broadcast arrives: handleCountdown
DeliverCountdown(p) ==
  /\ Next_(p, "countdown")
  /\ wire' = [wire EXCEPT ![p] = Tail(@)]
  /\ battleState' =
       IF Receiving(p)
         THEN [battleState EXCEPT ![p] = handleCountdown(@, Head(wire[p]).count)]
         ELSE battleState
  /\ UNCHANGED << battleChannel, countdowns, flows, game, net, match_history, events >>
  /\ UNCHANGED << player_ranks, matches, mmRest, rankRest >>

\* a game_over broadcast arrives: handleOpponentGameOver
DeliverGameOver(p) ==
  /\ Next_(p, "game_over")
  /\ wire' = [wire EXCEPT ![p] = Tail(@)]
  /\ IF Receiving(p)
       THEN HandleOpponentGameOver(p, battleChannel, events)
       ELSE UNCHANGED << battleState, battleChannel, flows, events >>
  /\ UNCHANGED << countdowns, game, net, match_history >>
  /\ UNCHANGED << player_ranks, matches, mmRest, rankRest >>

\* startBattle up to its await: isStarted is set, the `playing` write is issued
startBattle(p, bs) ==
  IF bs.exists /\ battleChannel[p].exists
    THEN [state |-> [bs EXCEPT !.isStarted = TRUE], issued |-> 1]
    ELSE [state |-> bs, issued |-> 0]

\* a tick of a countdown interval: sendCountdown(count), handleCountdown(count),
\* count--, and below zero clearInterval(countdownInterval) and startBattle()
CountdownTick(p, iv) ==
  /\ iv \in countdowns[p].alive
  /\ iv.count > -MaxExtraTicks
  /\ wire' = Broadcast(wire, battleChannel, net, p, "countdown", iv.count)
  /\ LET counted == handleCountdown(battleState[p], iv.count)
         ticked == (countdowns[p].alive \ {iv}) \cup {[iv EXCEPT !.count = @ - 1]}
         held == countdowns[p].countdownInterval
         started == startBattle(p, counted)
     IN IF iv.count - 1 < 0
          THEN /\ countdowns' = [countdowns EXCEPT ![p].countdownInterval = 0,
                                                   ![p].alive = {x \in ticked : x.id # held}]
               /\ battleState' = [battleState EXCEPT ![p] = started.state]
               /\ flows' = [flows EXCEPT ![p].starting = @ + started.issued]
          ELSE /\ countdowns' = [countdowns EXCEPT ![p].alive = ticked]
               /\ battleState' = [battleState EXCEPT ![p] = counted]
               /\ UNCHANGED flows
  /\ UNCHANGED << battleChannel, game, net, match_history, events >>
  /\ UNCHANGED << player_ranks, matches, mmRest, rankRest >>

\* updateMatchStatus: .update({status, winner_id}).eq('id', matchId), whatever
\* the status of the row is
updateMatchStatus(rows, id, status, winnerId) ==
  LET Change(r) == [r EXCEPT !.status = status,
                             !.winner_id = IF winnerId = << >> THEN @ ELSE winnerId]
  IN MatchUpdate(rows, id, Change)

\* the `playing` write of startBattle is applied (or fails); then
\* startGameStateSync and onBattleStart, which main.ts answers by starting
\* the game (state.running = 'playing').  Without a battleChannel the call
\* ends with a TypeError.
StartBattleWrite(p) ==
  /\ flows[p].starting > 0
  /\ flows' = [flows EXCEPT ![p].starting = @ - 1]
  /\ \E ok \in BOOLEAN :
       matches' = IF ok THEN updateMatchStatus(matches, BattleMatch, "playing", << >>)
                  ELSE matches
  /\ IF battleChannel[p].exists
       THEN /\ battleChannel' = [battleChannel EXCEPT ![p].syncInterval = TRUE]
            /\ events' = [events EXCEPT ![p].onBattleStart = @ + 1]
            /\ game' = [game EXCEPT ![p].running = "playing"]
       ELSE UNCHANGED << battleChannel, events, game >>
  /\ UNCHANGED << battleState, countdowns, wire, net, match_history >>
  /\ UNCHANGED << player_ranks, mmRest, rankRest >>

\* isInBattle()
isInBattle(p) == battleState[p].exists /\ battleState[p].isStarted

\* onMyGameOver: `if (!battleState || !battleChannel || battleState.result !== 'pending') return`
MayReportGameOver(p) ==
  battleState[p].exists /\ battleChannel[p].exists /\ battleState[p].result = "pending"

\* main.ts gameOver(): the running game tops out; in battle mode
\* onMyGameOver: result = 'loss', the game_over broadcast, endBattle(false)
GameOver(p) ==
  /\ game[p].running = "playing"
  /\ game' = [game EXCEPT ![p].running = "gameover"]
  /\ IF game[p].isBattleMode /\ isInBattle(p) /\ MayReportGameOver(p)
       THEN /\ battleState' = [battleState EXCEPT ![p].result = "loss"]
            /\ wire' = Broadcast(wire, battleChannel, net, p, "game_over", 0)
            /\ EndBattle(p, FALSE, battleChannel, events)
       ELSE UNCHANGED << battleState, wire, battleChannel, flows, events >>
  /\ UNCHANGED << countdowns, net, match_history >>
  /\ UNCHANGED << player_ranks, matches, mmRest, rankRest >>

\* the other player of the battle
Opponent(p) == CHOOSE q \in Battlers : q # p

\* what main.ts reports as getScore() when the battle ends
FinalScore == 1

createDefaultRankChange_WinDelta ==
  [before |-> [tier |-> "Iron", division |-> 4, points |-> 0],
   after |-> [tier |-> "Iron", division |-> 4, points |-> 0],
   pointsDelta |-> WIN_POINTS, promoted |-> FALSE, demoted |-> FALSE]

\* createDefaultRankChange
createDefaultRankChange ==
  [before |-> [tier |-> "Iron", division |-> 4, points |-> 0],
   after |-> [tier |-> "Iron", division |-> 4, points |-> 0],
   pointsDelta |-> 0, promoted |-> FALSE, demoted |-> FALSE]

\* the MatchResult of endBattle: rankChange ?? createDefaultRankChange()
MatchResult(isWin, change) ==
  [isWin |-> isWin,
   rankChange |-> IF change = << >> THEN createDefaultRankChange ELSE change[1]]

\* onBattleEnd(result), which main.ts answers with handleBattleEnd: the game
\* stops and the result modal is shown
Finish(p, result) ==
  /\ events' = [events EXCEPT ![p].onBattleEnd = @ + 1, ![p].result = << result >>]
  /\ game' = [game EXCEPT ![p] = [isBattleMode |-> FALSE, running |-> "gameover",
                                  resultModal |-> TRUE]]

\* endBattle: the `finished` write is applied (or fails); updateMatchScore is
\* issued.  When battleState is null by now the call ends with a TypeError.
EndStatus(p) ==
  /\ flows[p].ending = "status"
  /\ \E ok \in BOOLEAN :
       matches' =
         IF ok THEN updateMatchStatus(matches, BattleMatch, "finished",
                                      << IF flows[p].isWin THEN p ELSE Opponent(p) >>)
         ELSE matches
  /\ flows' = [flows EXCEPT ![p].ending = IF battleState[p].exists THEN "record" ELSE "idle"]
  /\ UNCHANGED << battleState, battleChannel, countdowns, game, wire, net, match_history, events >>
  /\ UNCHANGED << player_ranks, mmRest, rankRest >>

\* updateMatchScore: the caller's score column is written
updateMatchScore(rows, id, userId, score) ==
  LET Change(r) == IF r.player1_id = userId THEN [r EXCEPT !.player1_score = score]
                   ELSE [r EXCEPT !.player2_score = score]
  IN MatchUpdate(rows, id, Change)

HistoryRow_TotalPointsDelta(id, matchId, userId, isWin, pointsChange, rankBefore, rankAfter) ==
  [id |-> id, match_id |-> matchId, player_id |-> userId,
   result |-> IF isWin THEN "win" ELSE "loss",
   points_change |-> IF isWin THEN WIN_POINTS ELSE 0,
   tier_before |-> rankBefore.tier, division_before |-> rankBefore.division,
   tier_after |-> rankAfter.tier, division_after |-> rankAfter.division]

\* saveMatchHistory as endBattle calls it: the row inserted (id is the key the
\* store gives the row; tier and division come from the rank rows read before
\* and after the update)
HistoryRow(id, matchId, userId, isWin, pointsChange, rankBefore, rankAfter) ==
  [id |-> id, match_id |-> matchId, player_id |-> userId,
   result |-> IF isWin THEN "win" ELSE "loss", points_change |-> pointsChange,
   tier_before |-> rankBefore.tier, division_before |-> rankBefore.division,
   tier_after |-> rankAfter.tier, division_after |-> rankAfter.division]

\* endBattle after the `finished` write: updateMatchScore, then
\* getOrCreatePlayerRank, updateRankAfterMatch, getOrCreatePlayerRank, then
\* saveMatchHistory when all three gave a result, then onBattleEnd.  These
\* calls write the caller's score column, rank row and history row, which no
\* other call reads or writes during the battle; they are applied in one step.
EndRecord(p) ==
  /\ flows[p].ending = "record"
  /\ flows' = [flows EXCEPT ![p].ending = "idle"]
  /\ \E ok1 \in BOOLEAN, ok2 \in BOOLEAN, ok3 \in BOOLEAN, ok4 \in BOOLEAN :
       LET rankBefore == getOrCreatePlayerRank(player_ranks, p, ok1, ok1)
           rankChange == updateRankAfterMatch(rankBefore.table, p, flows[p].isWin, ok2, ok2, ok2)
           rankAfter == getOrCreatePlayerRank(rankChange.table, p, ok3, ok3)
           complete == rankBefore.rank # << >> /\ rankChange.change # << >>
                         /\ rankAfter.rank # << >>
       IN /\ matches' = updateMatchScore(matches, BattleMatch, p, FinalScore)
          /\ player_ranks' = rankAfter.table
          /\ match_history' =
               IF complete /\ ok4
                 THEN match_history \cup
                        {HistoryRow(Cardinality(match_history) + 1, BattleMatch, p,
                                    flows[p].isWin, rankChange.change[1].pointsDelta,
                                    rankBefore.rank[1], rankAfter.rank[1])}
                 ELSE match_history
          /\ IF battleState[p].exists
               THEN Finish(p, MatchResult(flows[p].isWin, rankChange.change))
               ELSE UNCHANGED << events, game >>
  /\ UNCHANGED << battleState, battleChannel, countdowns, wire, net >>
  /\ UNCHANGED << mmRest, rankRest >>

\* cleanupBattle: clearInterval(countdownInterval), battleChannel.disconnect()
\* (sync and disconnect timer cleared, channel unsubscribed, which leaves the
\* presence set), battleChannel = battleState = null; the callbacks, set by
\* initBattleGame together with battleState, are null with it.  Every test
\* of the function is on the handle itself, so it runs in any state.
cleanupBattle(p) ==
  /\ countdowns' = [countdowns EXCEPT
                      ![p].countdownInterval = 0,
                      ![p].alive = {x \in @ : x.id # countdowns[p].countdownInterval}]
  /\ battleChannel' = [battleChannel EXCEPT ![p] = NoBattleChannel]
  /\ battleState' = [battleState EXCEPT ![p] = NoSession]
  /\ net' = [net EXCEPT !.tracked = @ \ {p}]
  /\ wire' = IF p \in Present(net) THEN SyncAll(wire, battleChannel', net') ELSE wire

\* a button of the result modal: closeBattleScreen -> cleanupBattle
CloseBattleScreen(p) ==
  /\ game[p].resultModal
  /\ game' = [game EXCEPT ![p].resultModal = FALSE, ![p].isBattleMode = FALSE]
  /\ cleanupBattle(p)
  /\ UNCHANGED << flows, match_history, events >>
  /\ UNCHANGED << player_ranks, matches, mmRest, rankRest >>

\* sendReady called again in a session: `if (!battleChannel || !battleState)
\* return`, the player_ready broadcast, setPlayerReady.  Every run of
\* handleMatchFound ends with this call, on the battleChannel of the moment.
\* The call followed is the one of the client with the greater id, whose
\* player_ready the host answers.
SendReadyAgain(p) ==
  /\ p \in Battlers
  /\ flows[p].connect = "done"
  /\ flows[p].readies < MaxReadies
  /\ IdLess(battleState[p].opponentId, p)
  /\ battleChannel[p].exists /\ battleState[p].exists
  /\ flows' = [flows EXCEPT ![p].readies = @ + 1]
  /\ wire' = Broadcast(wire, battleChannel, net, p, "player_ready", 0)
  /\ matches' = setPlayerReady(matches, BattleMatch, p)
  /\ UNCHANGED << battleState, battleChannel, countdowns, game, net, match_history, events >>
  /\ UNCHANGED << player_ranks, mmRest, rankRest >>

\* cleanupBattle called at any moment, whatever the session is doing
CleanupBattle(p) ==
  /\ p \in Battlers
  /\ flows[p].cleanups < MaxCleanups
  /\ flows' = [flows EXCEPT ![p].cleanups = @ + 1]
  /\ cleanupBattle(p)
  /\ UNCHANGED << game, match_history, events >>
  /\ UNCHANGED << player_ranks, matches, mmRest, rankRest >>

\* the websocket of a client in the presence set goes down: what was on its
\* way to the client is lost, the others see it leave
NetDrop(p) ==
  /\ p \in Present(net)
  /\ net.drops < MaxDrops
  /\ net' = [net EXCEPT !.up = @ \ {p}, !.drops = @ + 1]
  /\ wire' = SyncAll([wire EXCEPT ![p] = << >>], battleChannel, net')
  /\ UNCHANGED << battleState, battleChannel, countdowns, flows, game, match_history, events >>
  /\ UNCHANGED << player_ranks, matches, mmRest, rankRest >>

\* the websocket is up again: the client rejoins the channel and the presence set
NetRestore(p) ==
  /\ p \notin net.up
  /\ net' = [net EXCEPT !.up = @ \cup {p}]
  /\ wire' = IF p \in net.tracked THEN SyncAll(wire, battleChannel, net') ELSE wire
  /\ UNCHANGED << battleState, battleChannel, countdowns, flows, game, match_history, events >>
  /\ UNCHANGED << player_ranks, matches, mmRest, rankRest >>

\* GARBAGE_TABLE[linesCleared] || 0
GARBAGE_TABLE(linesCleared) ==
  CASE linesCleared = 1 -> 0
    [] linesCleared = 2 -> 1
    [] linesCleared = 3 -> 2
    [] linesCleared = 4 -> 4
    [] OTHER -> 0

\* An onLinesCleared that sends the table amount without cancelling it
\* against the incoming garbage.
onLinesCleared_NoCancel(bs, bc, linesCleared) ==
  LET garbageToSend == GARBAGE_TABLE(linesCleared) IN
  IF ~bs.exists \/ ~bc.exists \/ ~bs.isStarted THEN [state |-> bs, sent |-> 0]
  ELSE [state |-> [bs EXCEPT !.garbageSent = @ + garbageToSend], sent |-> garbageToSend]

\* onLinesCleared(linesCleared) on battleState bs with battleChannel bc: the
\* battleState it leaves and the lines handed to sendGarbageAttack (0: no call)
onLinesCleared(bs, bc, linesCleared) ==
  LET garbageToSend == GARBAGE_TABLE(linesCleared) IN
  IF ~bs.exists \/ ~bc.exists \/ ~bs.isStarted THEN [state |-> bs, sent |-> 0]
  ELSE IF garbageToSend <= 0 THEN [state |-> bs, sent |-> 0]
  ELSE IF bs.incomingGarbage > 0
    THEN LET cancelled == Min(bs.incomingGarbage, garbageToSend)
             actualGarbage == garbageToSend - cancelled
         IN [state |-> [bs EXCEPT !.incomingGarbage = @ - cancelled,
                                  !.garbageSent = IF actualGarbage > 0
                                                    THEN @ + actualGarbage ELSE @],
             sent |-> IF actualGarbage > 0 THEN actualGarbage ELSE 0]
  ELSE [state |-> [bs EXCEPT !.garbageSent = @ + garbageToSend], sent |-> garbageToSend]

\* main.ts clearLines: the running game cleared `linesCleared` lines; in
\* battle mode onLinesCleared, whose sendGarbageAttack broadcasts
\* garbage_attack when it has a channel and lines > 0
LinesCleared(p, linesCleared) ==
  /\ game[p].running = "playing"
  /\ battleState[p].garbageSent + GARBAGE_TABLE(linesCleared) <= MaxGarbageSent
  /\ LET res == IF game[p].isBattleMode /\ isInBattle(p)
                  THEN onLinesCleared(battleState[p], battleChannel[p], linesCleared)
                  ELSE [state |-> battleState[p], sent |-> 0]
     IN /\ battleState' = [battleState EXCEPT ![p] = res.state]
        /\ wire' = IF res.sent > 0
                     THEN Broadcast(wire, battleChannel, net, p, "garbage_attack", res.sent)
                     ELSE wire
        /\ events' = [events EXCEPT
                        ![p].cancelled = @ + battleState[p].incomingGarbage
                                           - res.state.incomingGarbage,
                        ![p].attacked = @ + res.sent]
  /\ UNCHANGED << battleChannel, countdowns, flows, game, net, match_history >>
  /\ UNCHANGED << player_ranks, matches, mmRest, rankRest >>

handleGarbageReceived_Overwrites(bs, lines) ==
  IF bs.exists THEN [bs EXCEPT !.incomingGarbage = lines] ELSE bs

\* handleGarbageReceived
handleGarbageReceived(bs, lines) ==
  IF bs.exists THEN [bs EXCEPT !.incomingGarbage = @ + lines] ELSE bs

\* a garbage_attack broadcast arrives
DeliverGarbage(p) ==
  /\ Next_(p, "garbage_attack")
  /\ wire' = [wire EXCEPT ![p] = Tail(@)]
  /\ battleState' =
       IF Receiving(p)
         THEN [battleState EXCEPT ![p] = handleGarbageReceived(@, Head(wire[p]).count)]
         ELSE battleState
  /\ events' = IF Receiving(p) /\ battleState[p].exists
                 THEN [events EXCEPT ![p].received = @ + Head(wire[p]).count]
                 ELSE events
  /\ UNCHANGED << battleChannel, countdowns, flows, game, net, match_history >>
  /\ UNCHANGED << player_ranks, matches, mmRest, rankRest >>

applyPendingGarbage_KeepsCounter(bs) ==
  [state |-> bs, garbage |-> IF bs.exists THEN bs.incomingGarbage ELSE 0]

\* applyPendingGarbage: the battleState it leaves and the number it returns
applyPendingGarbage(bs) ==
  IF bs.exists THEN [state |-> [bs EXCEPT !.incomingGarbage = 0], garbage |-> bs.incomingGarbage]
  ELSE [state |-> bs, garbage |-> 0]

\* main.ts on a piece lock: in battle mode the pending garbage is taken and
\* pushed onto the board
PieceLocked(p) ==
  /\ game[p].running = "playing"
  /\ game[p].isBattleMode /\ isInBattle(p)
  /\ LET res == applyPendingGarbage(battleState[p])
     IN /\ battleState' = [battleState EXCEPT ![p] = res.state]
        /\ events' = [events EXCEPT ![p].drained = @ + res.garbage,
                                    ![p].applied = << res.garbage >>]
  /\ UNCHANGED << battleChannel, countdowns, flows, game, wire, net, match_history >>
  /\ UNCHANGED << player_ranks, matches, mmRest, rankRest >>

\* the battle begins where the pairing of "a" and "b" ends: "a" has inserted
\* Match row 1 and flipped its own entry, both clients were told of the match
Paired ==
  /\ matchmaking_queue = << [QueueEntry("a", PlayerTier["a"]) EXCEPT !.status = "matched"],
                            QueueEntry("b", PlayerTier["b"]) >>
  /\ matches = << MatchRow("a", "b") >>
  /\ mm = [p \in Players |-> NoHandles]
  /\ joining = [p \in Players |->
                  [pc |-> "idle", calls |-> IF p \in {"a", "b"} THEN 1 ELSE 0, modal |-> FALSE, replaced |-> ""]]
  /\ tasks = [p \in Players |-> EmptyBag]
  /\ leaving = [p \in Players |-> 0]
  /\ inbox = [p \in Players |-> {}]
  /\ queueEvents = [p \in Players |-> 0]
  /\ cb = [p \in Players |->
             IF p \in {"a", "b"} THEN [NoCallbacks EXCEPT !.onMatchFound = << 1 >>]
             ELSE NoCallbacks]

MMIdle ==
  /\ matchmaking_queue = << >>
  /\ matches = << >>
  /\ mm = [p \in Players |-> NoHandles]
  /\ joining = [p \in Players |-> [pc |-> "idle", calls |-> 0, modal |-> FALSE, replaced |-> ""]]
  /\ tasks = [p \in Players |-> EmptyBag]
  /\ leaving = [p \in Players |-> 0]
  /\ inbox = [p \in Players |-> {}]
  /\ queueEvents = [p \in Players |-> 0]
  /\ cb = [p \in Players |-> NoCallbacks]

RankIdle ==
  /\ player_ranks = {[DefaultRank(p) EXCEPT !.tier = PlayerTier[p]] : p \in Players}
  /\ now = 0
  /\ call = NoCall

\* every row the CHECK constraints admit, for a user without match history
RankRows(userId) ==
  {[DefaultRank(userId) EXCEPT !.tier = t, !.division = d, !.points = p] :
     t \in Tiers, d \in 1..4, p \in 0..(POINTS_PER_DIVISION - 1)}

\* rows as useOnlineHeart leaves them: an anchor exactly when hearts < max
HeartRows(userId) ==
  {[DefaultRank(userId) EXCEPT !.online_hearts = h,
                               !.hearts_recharged_at =
                                  IF h < MAX_ONLINE_HEARTS THEN << 0 >> ELSE << >>] :
     h \in 0..MAX_ONLINE_HEARTS}

InitRank ==
  /\ player_ranks \in {{}} \cup {{r} : r \in RankRows(RankUser)}
  /\ now = 0
  /\ call = NoCall
  /\ MMIdle
  /\ BattleIdle

NextRank ==
  \/ GetOrCreatePlayerRank /\ UNCHANGED << mmVars, battleVars >>
  \/ UpdateRankAfterMatch /\ UNCHANGED << mmVars, battleVars >>

SpecRank == InitRank /\ [][NextRank]_vars

InitHearts ==
  /\ player_ranks \in {{}} \cup {{r} : r \in HeartRows(RankUser)}
  /\ now = 0
  /\ call = NoCall
  /\ MMIdle
  /\ BattleIdle

NextHearts ==
  \/ GetOrCreatePlayerRank /\ UNCHANGED << mmVars, battleVars >>
  \/ UseOnlineHeart /\ UNCHANGED << mmVars, battleVars >>
  \/ GetOnlineHearts /\ UNCHANGED << mmVars, battleVars >>
  \/ AdvanceClock /\ UNCHANGED << mmVars, battleVars >>

SpecHearts == InitHearts /\ [][NextHearts]_vars

InitAccess ==
  /\ player_ranks \in {{}} \cup {{r} : r \in HeartRows(RankUser)}
  /\ now = 0
  /\ call = [op |-> "concurrent", req |-> [i \in Requests |-> NoRequest],
             rows |-> Cardinality(player_ranks)]
  /\ MMIdle
  /\ BattleIdle

NextAccess ==
  \/ \E i \in Requests : BeginAccess(i) /\ UNCHANGED << mmVars, battleVars >>
  \/ \E i \in Requests : FetchAnswered(i) /\ UNCHANGED << mmVars, battleVars >>
  \/ \E i \in Requests : CreateAnswered(i) /\ UNCHANGED << mmVars, battleVars >>

SpecAccess == InitAccess /\ [][NextAccess]_vars

\* the clients that take part in matchmaking
Searchers == {"a", "b"}

InitMM == RankIdle /\ MMIdle /\ BattleIdle

\* pairing: the clients join and search on every trigger; nobody cancels and
\* the matchmaking timeout does not fire within the window
NextMM ==
  \/ \E p \in Searchers : JoinStart(p) /\ UNCHANGED << rankVars, battleVars >>
  \/ \E p \in Searchers : JoinDelete(p) /\ UNCHANGED << rankVars, battleVars >>
  \/ \E p \in Searchers : JoinInsert(p) /\ UNCHANGED << rankVars, battleVars >>
  \/ \E p \in Searchers : Poll(p) /\ UNCHANGED << rankVars, battleVars >>
  \/ \E p \in Searchers : QueueChange(p) /\ UNCHANGED << rankVars, battleVars >>
  \/ \E p \in Searchers, m \in 1..MaxMatches : MatchFound(p, m) /\ UNCHANGED << rankVars, battleVars >>
  \/ \E p \in Searchers : \E t \in BagToSet(tasks[p]) : FindSelect(p, t) /\ UNCHANGED << rankVars, battleVars >>
  \/ \E p \in Searchers : \E t \in BagToSet(tasks[p]) : FindFlip(p, t) /\ UNCHANGED << rankVars, battleVars >>
  \/ \E p \in Searchers : \E t \in BagToSet(tasks[p]) : FindInsert(p, t) /\ UNCHANGED << rankVars, battleVars >>
  \/ \E p \in Searchers : \E t \in BagToSet(tasks[p]) : FindRollback(p, t) /\ UNCHANGED << rankVars, battleVars >>
  \/ \E p \in Searchers : \E t \in BagToSet(tasks[p]) : FindNotify(p, t) /\ UNCHANGED << rankVars, battleVars >>

SpecMM == InitMM /\ [][NextMM]_vars

\* leaving: the clients join and run the search after join; they may cancel
\* and the matchmaking timeout may fire; the search interval does not tick
\* within the window
NextLeave ==
  \/ \E p \in Searchers : JoinStart(p) /\ UNCHANGED << rankVars, battleVars >>
  \/ \E p \in Searchers : JoinDelete(p) /\ UNCHANGED << rankVars, battleVars >>
  \/ \E p \in Searchers : JoinInsert(p) /\ UNCHANGED << rankVars, battleVars >>
  \/ \E p \in Searchers : Timeout(p) /\ UNCHANGED << rankVars, battleVars >>
  \/ \E p \in Searchers : Leave(p) /\ UNCHANGED << rankVars, battleVars >>
  \/ \E p \in Searchers : LeaveDelete(p) /\ UNCHANGED << rankVars, battleVars >>
  \/ \E p \in Searchers, m \in 1..MaxMatches : MatchFound(p, m) /\ UNCHANGED << rankVars, battleVars >>
  \/ \E p \in Searchers : \E t \in BagToSet(tasks[p]) : FindSelect(p, t) /\ UNCHANGED << rankVars, battleVars >>
  \/ \E p \in Searchers : \E t \in BagToSet(tasks[p]) : FindFlip(p, t) /\ UNCHANGED << rankVars, battleVars >>
  \/ \E p \in Searchers : \E t \in BagToSet(tasks[p]) : FindInsert(p, t) /\ UNCHANGED << rankVars, battleVars >>
  \/ \E p \in Searchers : \E t \in BagToSet(tasks[p]) : FindRollback(p, t) /\ UNCHANGED << rankVars, battleVars >>
  \/ \E p \in Searchers : \E t \in BagToSet(tasks[p]) : FindNotify(p, t) /\ UNCHANGED << rankVars, battleVars >>

SpecLeave == InitMM /\ [][NextLeave]_vars

\* entries that earlier sessions left in the queue: tryFindOpponent never
\* deletes the entries it matched, and a page that is closed while waiting
\* deletes nothing
StaleQueues ==
  LET Stale(p) == {<< >>} \cup {<< [QueueEntry(p, PlayerTier[p]) EXCEPT !.status = st] >> :
                                  st \in {"waiting", "matched"}}
  IN {qa \o qb : qa \in Stale("a"), qb \in Stale("b")}

InitRejoin ==
  /\ RankIdle
  /\ BattleIdle
  /\ matchmaking_queue \in StaleQueues
  /\ matches = << >>
  /\ mm = [p \in Players |-> NoHandles]
  /\ joining = [p \in Players |-> [pc |-> "idle", calls |-> 0, modal |-> FALSE, replaced |-> ""]]
  /\ tasks = [p \in Players |-> EmptyBag]
  /\ leaving = [p \in Players |-> 0]
  /\ inbox = [p \in Players |-> {}]
  /\ queueEvents = [p \in Players |-> 0]
  /\ cb = [p \in Players |-> NoCallbacks]

\* joining again: the queue starts with stale entries, the clients join, may
\* join a second time while the first attempt is under way, and may cancel;
\* the searches go as far as their status update
NextRejoin ==
  \/ \E p \in Searchers : JoinStart(p) /\ UNCHANGED << rankVars, battleVars >>
  \/ \E p \in Searchers : JoinAgain(p) /\ UNCHANGED << rankVars, battleVars >>
  \/ \E p \in Searchers : JoinDelete(p) /\ UNCHANGED << rankVars, battleVars >>
  \/ \E p \in Searchers : JoinInsert(p) /\ UNCHANGED << rankVars, battleVars >>
  \/ \E p \in Searchers : Leave(p) /\ UNCHANGED << rankVars, battleVars >>
  \/ \E p \in Searchers : LeaveDelete(p) /\ UNCHANGED << rankVars, battleVars >>
  \/ \E p \in Searchers : \E t \in BagToSet(tasks[p]) : FindSelect(p, t) /\ UNCHANGED << rankVars, battleVars >>
  \/ \E p \in Searchers : \E t \in BagToSet(tasks[p]) : FindFlip(p, t) /\ UNCHANGED << rankVars, battleVars >>

SpecRejoin == InitRejoin /\ [][NextRejoin]_vars

\* cancelling: the queue starts with stale entries; the clients join, cancel,
\* and cancel again; the searches stay at their select
NextCancel ==
  \/ \E p \in Searchers : JoinStart(p) /\ UNCHANGED << rankVars, battleVars >>
  \/ \E p \in Searchers : JoinDelete(p) /\ UNCHANGED << rankVars, battleVars >>
  \/ \E p \in Searchers : JoinInsert(p) /\ UNCHANGED << rankVars, battleVars >>
  \/ \E p \in Searchers : Leave(p) /\ UNCHANGED << rankVars, battleVars >>
  \/ \E p \in Searchers : LeaveAgain(p) /\ UNCHANGED << rankVars, battleVars >>
  \/ \E p \in Searchers : LeaveDelete(p) /\ UNCHANGED << rankVars, battleVars >>

SpecCancel == InitRejoin /\ [][NextCancel]_vars

\* tier ranges: the two clients have ranks of any two tiers, join and search
InitTiers ==
  /\ \E ta, tb \in Tiers :
       player_ranks = {[DefaultRank(p) EXCEPT !.tier = IF p = "a" THEN ta
                                                     ELSE IF p = "b" THEN tb
                                                     ELSE PlayerTier[p]] : p \in Players}
  /\ now = 0
  /\ call = NoCall
  /\ MMIdle
  /\ BattleIdle

NextTiers ==
  \/ \E p \in Searchers : JoinStart(p) /\ UNCHANGED << rankVars, battleVars >>
  \/ \E p \in Searchers : JoinDelete(p) /\ UNCHANGED << rankVars, battleVars >>
  \/ \E p \in Searchers : JoinInsert(p) /\ UNCHANGED << rankVars, battleVars >>
  \/ \E p \in Searchers : \E t \in BagToSet(tasks[p]) : FindSelect(p, t) /\ UNCHANGED << rankVars, battleVars >>

SpecTiers == InitTiers /\ [][NextTiers]_vars

\* pairing across tiers: a and b have ranks of any two of the four lowest
\* tiers; the queue starts with an entry that an earlier session of c left,
\* of any of these tiers, waiting or matched (the tier of an entry is the one
\* of the rank at the time of the join)
InitPair ==
  LET lowest == {TIER_ORDER[i] : i \in 1..4} IN
  /\ \E ta \in lowest, tb \in lowest :
       player_ranks = {[DefaultRank(p) EXCEPT !.tier = IF p = "a" THEN ta
                                                     ELSE IF p = "b" THEN tb
                                                     ELSE PlayerTier[p]] : p \in Players}
  /\ now = 0
  /\ call = NoCall
  /\ BattleIdle
  /\ \E tc \in lowest, st \in {"waiting", "matched"} :
       matchmaking_queue = << [QueueEntry("c", tc) EXCEPT !.status = st] >>
  /\ matches = << >>
  /\ mm = [p \in Players |-> NoHandles]
  /\ joining = [p \in Players |-> [pc |-> "idle", calls |-> 0, modal |-> FALSE, replaced |-> ""]]
  /\ tasks = [p \in Players |-> EmptyBag]
  /\ leaving = [p \in Players |-> 0]
  /\ inbox = [p \in Players |-> {}]
  /\ queueEvents = [p \in Players |-> 0]
  /\ cb = [p \in Players |-> NoCallbacks]

\* the clients join and run the search after join up to its Match insert or
\* its rollback
NextPair ==
  \/ \E p \in Searchers : JoinStart(p) /\ UNCHANGED << rankVars, battleVars >>
  \/ \E p \in Searchers : JoinDelete(p) /\ UNCHANGED << rankVars, battleVars >>
  \/ \E p \in Searchers : JoinInsert(p) /\ UNCHANGED << rankVars, battleVars >>
  \/ \E p \in Searchers : \E t \in BagToSet(tasks[p]) : FindSelect(p, t) /\ UNCHANGED << rankVars, battleVars >>
  \/ \E p \in Searchers : \E t \in BagToSet(tasks[p]) : FindFlip(p, t) /\ UNCHANGED << rankVars, battleVars >>
  \/ \E p \in Searchers : \E t \in BagToSet(tasks[p]) : FindInsert(p, t) /\ UNCHANGED << rankVars, battleVars >>
  \/ \E p \in Searchers : \E t \in BagToSet(tasks[p]) : FindRollback(p, t) /\ UNCHANGED << rankVars, battleVars >>

SpecPair == InitPair /\ [][NextPair]_vars

InitBattle == RankIdle /\ Paired /\ BattleIdle

NextBattle ==
  \/ \E p \in Players : HandleMatchFound(p)
  \/ \E p \in Players : Connected(p)
  \/ \E p \in Players : DeliverSync(p)
  \/ \E p \in Players : DeliverReady(p)
  \/ \E p \in Players : DeliverCountdown(p)
  \/ \E p \in Players : DeliverGameOver(p)
  \/ \E p \in Players : DisconnectTimerFires(p)
  \/ \E p \in Players : \E iv \in countdowns[p].alive : CountdownTick(p, iv)
  \/ \E p \in Players : StartBattleWrite(p)
  \/ \E p \in Players : GameOver(p)
  \/ \E p \in Players : EndStatus(p)
  \/ \E p \in Players : EndRecord(p)
  \/ \E p \in Players : CloseBattleScreen(p)
  \/ \E p \in Players : NetDrop(p)
  \/ \E p \in Players : NetRestore(p)

SpecBattle == InitBattle /\ [][NextBattle]_vars

\* The battle on a network that stays up.  What the runtime schedules is
\* fair: the subscribe callback is called, a queued websocket message is
\* handled, an interval ticks while it is alive, a pending timeout fires and
\* an awaited store call returns.  Nothing forces the player to lose the
\* game or to close the result screen.
NextStart ==
  \/ \E p \in Players : HandleMatchFound(p)
  \/ \E p \in Players : Connected(p)
  \/ \E p \in Players : DeliverSync(p)
  \/ \E p \in Players : DeliverReady(p)
  \/ \E p \in Players : DeliverCountdown(p)
  \/ \E p \in Players : DeliverGameOver(p)
  \/ \E p \in Players : DisconnectTimerFires(p)
  \/ \E p \in Players : \E iv \in countdowns[p].alive : CountdownTick(p, iv)
  \/ \E p \in Players : StartBattleWrite(p)
  \/ \E p \in Players : GameOver(p)
  \/ \E p \in Players : EndStatus(p)
  \/ \E p \in Players : EndRecord(p)
  \/ \E p \in Players : CloseBattleScreen(p)

FairStart ==
  \A p \in Players :
    /\ WF_vars(HandleMatchFound(p))
    /\ WF_vars(Connected(p))
    /\ WF_vars(DeliverSync(p))
    /\ WF_vars(DeliverReady(p))
    /\ WF_vars(DeliverCountdown(p))
    /\ WF_vars(DeliverGameOver(p))
    /\ WF_vars(DisconnectTimerFires(p))
    /\ WF_vars(\E iv \in countdowns[p].alive : CountdownTick(p, iv))
    /\ WF_vars(StartBattleWrite(p))
    /\ WF_vars(EndStatus(p))
    /\ WF_vars(EndRecord(p))

SpecStart == InitBattle /\ [][NextStart]_vars /\ FairStart

\* The battle up to the start of the game, with cleanupBattle called at any
\* moment and with a client that sends player_ready a second time
NextCleanup ==
  \/ \E p \in Players : HandleMatchFound(p)
  \/ \E p \in Players : Connected(p)
  \/ \E p \in Players : DeliverSync(p)
  \/ \E p \in Players : DeliverReady(p)
  \/ \E p \in Players : DeliverCountdown(p)
  \/ \E p \in Players : \E iv \in countdowns[p].alive : CountdownTick(p, iv)
  \/ \E p \in Players : StartBattleWrite(p)
  \/ \E p \in Players : CleanupBattle(p)
  \/ \E p \in Players : SendReadyAgain(p)

SpecCleanup == InitBattle /\ [][NextCleanup]_vars

\* The battle of "a" and "b" once the host's startBattle has returned: "a" is
\* Live and its game runs, "b" has seen the countdown end.  incoming is the
\* garbage the Live client has waiting.
LiveBattle(incoming) ==
  /\ matchmaking_queue = << [QueueEntry("a", PlayerTier["a"]) EXCEPT !.status = "matched"],
                            QueueEntry("b", PlayerTier["b"]) >>
  /\ matches = << [MatchRow("a", "b") EXCEPT !.status = "playing",
                                            !.player1_ready = TRUE,
                                            !.player2_ready = TRUE] >>
  /\ mm = [p \in Players |-> NoHandles]
  /\ joining = [p \in Players |->
                  [pc |-> "idle", calls |-> IF p \in {"a", "b"} THEN 1 ELSE 0, modal |-> FALSE, replaced |-> ""]]
  /\ tasks = [p \in Players |-> EmptyBag]
  /\ leaving = [p \in Players |-> 0]
  /\ inbox = [p \in Players |-> {}]
  /\ queueEvents = [p \in Players |-> 0]
  /\ cb = [p \in Players |->
             IF p \in {"a", "b"} THEN [NoCallbacks EXCEPT !.onMatchFound = << 1 >>]
             ELSE NoCallbacks]
  /\ battleState =
       [p \in Players |->
          IF p = "a" THEN [NewSession(MatchRow("a", "b"), "a") EXCEPT
                             !.isStarted = TRUE, !.countdown = 0,
                             !.incomingGarbage = incoming]
          ELSE IF p = "b" THEN [NewSession(MatchRow("a", "b"), "b") EXCEPT !.countdown = 0]
          ELSE NoSession]
  /\ battleChannel =
       [p \in Players |->
          IF p = "a" THEN [NewBattleChannel EXCEPT !.channel = "subscribed",
                                                  !.syncInterval = TRUE]
          ELSE IF p = "b" THEN [NewBattleChannel EXCEPT !.channel = "subscribed"]
          ELSE NoBattleChannel]
  /\ countdowns = [p \in Players |-> IF p = "a" THEN [NoCountdowns EXCEPT !.made = 1]
                                      ELSE NoCountdowns]
  /\ flows = [p \in Players |-> IF p \in {"a", "b"}
                                   THEN [NoFlows EXCEPT !.connect = "done", !.calls = 1]
                                   ELSE NoFlows]
  /\ game = [p \in Players |->
               IF p = "a" THEN [NoGame EXCEPT !.isBattleMode = TRUE, !.running = "playing"]
               ELSE IF p = "b" THEN [NoGame EXCEPT !.isBattleMode = TRUE]
               ELSE NoGame]
  /\ wire = [p \in Players |-> << >>]
  /\ net = [tracked |-> {"a", "b"}, up |-> Players, drops |-> 0]
  /\ match_history = {}
  /\ events = [p \in Players |->
                 IF p = "a" THEN [NoEvents EXCEPT !.onBattleStart = 1,
                                                  !.onOpponentDisconnect = 1,
                                                  !.reconnects = 1,
                                                  !.received = incoming]
                 ELSE IF p = "b" THEN [NoEvents EXCEPT !.reconnects = 1]
                 ELSE NoEvents]

InitGarbage == RankIdle /\ \E incoming \in 0..MaxIncoming : LiveBattle(incoming)

NextGarbage ==
  \/ \E p \in Players : \E linesCleared \in 1..4 : LinesCleared(p, linesCleared)
  \/ \E p \in Players : DeliverGarbage(p)
  \/ \E p \in Players : PieceLocked(p)

SpecGarbage == InitGarbage /\ [][NextGarbage]_vars

(***************************************************************************)
(* Properties of the rank store                                            *)
(***************************************************************************)
RankInRange(r) ==
  /\ r.points >= 0 /\ r.points < 100
  /\ r.division >= 1 /\ r.division <= 4
  /\ \E i \in 1..Len(TIER_ORDER) : TIER_ORDER[i] = r.tier

StoreAnswered(c) == \A k \in DOMAIN c.io : c.io[k]

\* C4: starting from any rank with 0 <= points < 100, 1 <= division <= 4 and
\* a tier of the ordered set, every win (+12) and every loss (-4) that the
\* store accepts leaves a rank in the same ranges: the rank returned as
\* `after` is in range, it is the rank now stored, and the update is never
\* turned down for leaving the ranges.  Holds along sequences of results.
C4_RankStaysInRange ==
  /\ \A r \in player_ranks : RankInRange(r)
  /\ (call.op = "updateRankAfterMatch" /\ StoreAnswered(call)) =>
       /\ call.result # << >>
       /\ RankInRange(call.result[1].after)
       /\ call.result[1].pointsDelta = (IF call.isWin THEN 12 ELSE -4)
       /\ \E r \in RowsOf(player_ranks, RankUser) : RankOf(r) = call.result[1].after

\* a loss after at least one win that crossed a tier boundary downwards
C4_Witness ==
  /\ call.op = "updateRankAfterMatch" /\ call.result # << >>
  /\ call.result[1].demoted
  /\ call.result[1].before.tier # call.result[1].after.tier
  /\ \E r \in RowsOf(player_ranks, RankUser) : r.wins >= 1 /\ r.losses >= 1

\* the energy the lazy recharge yields at time t: one unit for every full
\* interval since the anchor, capped at the maximum
RechargedEnergy(r, t) ==
  IF r.hearts_recharged_at = << >> \/ r.online_hearts >= MAX_ONLINE_HEARTS
    THEN r.online_hearts
    ELSE Min(MAX_ONLINE_HEARTS,
             r.online_hearts
               + Max(0, (t - r.hearts_recharged_at[1]) \div ONLINE_HEART_RECHARGE_MS))

\* C10: a useOnlineHeart call that the store answers returns true exactly
\* when the energy after the lazy recharge is > 0, and then stores that
\* energy minus one (in particular: stored energy 0 with an anchor at least
\* one interval old gives true).
C10_ConsumeAfterRecharge ==
  [][ ( /\ call'.op = "useOnlineHeart"
        /\ (call.op # "useOnlineHeart" \/ call' # call \/ player_ranks' # player_ranks)
        /\ StoreAnswered(call')
        /\ ~NoRow(player_ranks, RankUser) )
      => LET r == CHOOSE x \in RowsOf(player_ranks, RankUser) : TRUE
             e == RechargedEnergy(r, now)
         IN /\ call'.result = (e > 0)
            /\ (e > 0) => \E x \in RowsOf(player_ranks', RankUser) : x.online_hearts = e - 1
    ]_vars

\* the stored row of the signed-in user
TheRow(table) == CHOOSE x \in RowsOf(table, RankUser) : TRUE

\* this step is a call of the rank store with the given name
Called(op) ==
  /\ call'.op = op /\ now' = now
  /\ (call.op # op \/ call' # call \/ player_ranks' # player_ranks)

\* C11: getOnlineHearts leaves the stored row of the player as it is, whatever
\* the row and the current time.
C11_PeekIsPure ==
  [][ (call'.op = "getOnlineHearts" /\ ~NoRow(player_ranks, RankUser))
        => player_ranks' = player_ranks ]_vars

\* C12: with stored energy 1 and no recharge due, a useOnlineHeart call the
\* store answers returns true and stores energy 0; a further call made before
\* a recharge interval has passed returns false and leaves the stored row
\* exactly as it was.
C12_SecondConsumeFails ==
  [][ (Called("useOnlineHeart") /\ ~NoRow(player_ranks, RankUser)) =>
        LET r == TheRow(player_ranks) IN
        /\ (r.online_hearts = 1 /\ RechargedEnergy(r, now) = 1 /\ StoreAnswered(call'))
             => /\ call'.result = TRUE
                /\ TheRow(player_ranks').online_hearts = 0
        /\ (/\ call.op = "useOnlineHeart" /\ call.result = TRUE
            /\ r.online_hearts = 0 /\ RechargedEnergy(r, now) = 0)
             => /\ call'.result = FALSE
                /\ player_ranks' = player_ranks ]_vars

\* the first call consumed the last unit at a time after the start, the
\* second call was answered and returned false
C12_Witness ==
  /\ call.op = "useOnlineHeart" /\ StoreAnswered(call) /\ call.result = FALSE
  /\ now > 0
  /\ ~NoRow(player_ranks, RankUser)
  /\ TheRow(player_ranks).online_hearts = 0
  /\ TheRow(player_ranks).hearts_recharged_at = << now >>

\* the row has an anchor, is below the maximum, and the call is made exactly
\* one recharge interval after the anchor
OneIntervalDue(r, t) ==
  /\ r.hearts_recharged_at # << >>
  /\ r.online_hearts < MAX_ONLINE_HEARTS
  /\ t = r.hearts_recharged_at[1] + ONLINE_HEART_RECHARGE_MS

\* C13: a recharge evaluated exactly one interval after the anchor adds
\* exactly one unit (getOnlineHearts reports and stores energy + 1,
\* useOnlineHeart with energy >= 1 stores energy + 1 - 1); a recharge never
\* reports more than Min(5, energy + elapsed intervals); and whatever calls
\* are made at whatever times, the stored energy is within 0..5.
C13_RechargeOneUnit ==
  [][ /\ \A r \in player_ranks' : r.online_hearts >= 0 /\ r.online_hearts <= 5
      /\ (Called("getOnlineHearts") /\ ~NoRow(player_ranks, RankUser)
            /\ StoreAnswered(call'))
           => LET r == TheRow(player_ranks) IN
              /\ call'.result.hearts = RechargedEnergy(r, now)
              /\ call'.result.hearts <= 5
              /\ OneIntervalDue(r, now)
                   => /\ call'.result.hearts = r.online_hearts + 1
                      /\ TheRow(player_ranks').online_hearts = r.online_hearts + 1
      /\ (Called("useOnlineHeart") /\ ~NoRow(player_ranks, RankUser)
            /\ StoreAnswered(call'))
           => LET r == TheRow(player_ranks) IN
              (OneIntervalDue(r, now) /\ r.online_hearts >= 1)
                => TheRow(player_ranks').online_hearts = r.online_hearts ]_vars

\* getOnlineHearts, called exactly one interval after the start, found a
\* recharge due and stored energy 3 with a fresh anchor
C13_Witness ==
  /\ call.op = "getOnlineHearts" /\ StoreAnswered(call)
  /\ now = ONLINE_HEART_RECHARGE_MS
  /\ call.result.hearts = 3
  /\ ~NoRow(player_ranks, RankUser)
  /\ TheRow(player_ranks).online_hearts = 3
  /\ TheRow(player_ranks).hearts_recharged_at = << now >>

\* the rank a win leads to from r, as far as it is determined: nothing is
\* said of a win at division 1 of the top tier that reaches 100 points
WinDetermined(r) ==
  r.points + WIN_POINTS < 100 \/ r.division > 1 \/ TierIndex(r.tier) < Len(TIER_ORDER) - 1

AfterWin(r) ==
  LET p == r.points + 12 IN
  IF p < 100 THEN [tier |-> r.tier, division |-> r.division, points |-> p]
  ELSE IF r.division > 1
    THEN [tier |-> r.tier, division |-> r.division - 1, points |-> p - 100]
  ELSE [tier |-> TierAt(TierIndex(r.tier) + 1), division |-> 4, points |-> p - 100]

\* the rank a loss leads to from r
AfterLoss(r) ==
  LET p == r.points - 4 IN
  IF p >= 0 THEN [tier |-> r.tier, division |-> r.division, points |-> p]
  ELSE IF r.division < 4
    THEN [tier |-> r.tier, division |-> r.division + 1, points |-> p + 100]
  ELSE IF r.tier # "Iron"
    THEN [tier |-> TierAt(TierIndex(r.tier) - 1), division |-> 1, points |-> p + 100]
  ELSE [tier |-> "Iron", division |-> 4, points |-> 0]

\* C19: a win the store answers adds 12 points; from 100 on it takes 100
\* points off and moves one step up: division d > 1 to d - 1 in the tier,
\* division 1 of a tier below the top to division 4 of the next tier;
\* promoted is true exactly when a step was made.  The result is the rank
\* stored.
C19_WinPromotes ==
  [][ (/\ Called("updateRankAfterMatch") /\ call'.isWin /\ StoreAnswered(call')
       /\ ~NoRow(player_ranks, RankUser) /\ WinDetermined(TheRow(player_ranks)))
        => LET r == TheRow(player_ranks) IN
           /\ call'.result # << >>
           /\ call'.result[1].before = RankOf(r)
           /\ call'.result[1].after = AfterWin(r)
           /\ call'.result[1].promoted = (r.points + 12 >= 100)
           /\ ~call'.result[1].demoted
           /\ RankOf(TheRow(player_ranks')) = AfterWin(r) ]_vars

\* Gold division 2 with 80 points won twice: 92 points, then Gold division 1
\* with 4 points and promoted
C19_Witness ==
  /\ call.op = "updateRankAfterMatch" /\ call.isWin /\ call.result # << >>
  /\ call.result[1].before = [tier |-> "Gold", division |-> 2, points |-> 92]
  /\ call.result[1].after = [tier |-> "Gold", division |-> 1, points |-> 4]
  /\ call.result[1].promoted
  /\ TheRow(player_ranks).wins = 2 /\ TheRow(player_ranks).total_points = 24

\* C20: a loss the store answers takes 4 points off; below 0 it moves one step
\* down and adds 100 points: division d < 4 to d + 1 in the tier, division 4
\* of a tier above Iron to division 1 of the tier before; at Iron division 4
\* the points become 0, tier and division stay and demoted is false.  The
\* result is the rank stored.
C20_LossDemotes ==
  [][ (/\ Called("updateRankAfterMatch") /\ ~call'.isWin /\ StoreAnswered(call')
       /\ ~NoRow(player_ranks, RankUser))
        => LET r == TheRow(player_ranks) IN
           /\ call'.result # << >>
           /\ call'.result[1].before = RankOf(r)
           /\ call'.result[1].after = AfterLoss(r)
           /\ call'.result[1].demoted
                = (r.points - 4 < 0 /\ ~(r.tier = "Iron" /\ r.division = 4))
           /\ ~call'.result[1].promoted
           /\ RankOf(TheRow(player_ranks')) = AfterLoss(r) ]_vars

\* Iron division 4 with 2 points lost: Iron division 4 with 0 points, not
\* demoted
C20_Witness ==
  /\ call.op = "updateRankAfterMatch" /\ ~call.isWin /\ call.result # << >>
  /\ call.result[1].before = [tier |-> "Iron", division |-> 4, points |-> 2]
  /\ call.result[1].after = [tier |-> "Iron", division |-> 4, points |-> 0]
  /\ ~call.result[1].demoted
  /\ TheRow(player_ranks).losses = 1

\* the top of the ladder
AtTop(r) == r.tier = TIER_ORDER[Len(TIER_ORDER)] /\ r.division = 1

\* C21: at Challenger division 1 a win the store answers whose point sum
\* reaches 100 leaves tier and division as they are, sets the points to 99,
\* and reports promoted = false; the result is the rank stored.
C21_TopClampsAt99 ==
  [][ (/\ Called("updateRankAfterMatch") /\ call'.isWin /\ StoreAnswered(call')
       /\ ~NoRow(player_ranks, RankUser)
       /\ AtTop(TheRow(player_ranks))
       /\ TheRow(player_ranks).points + 12 >= 100)
        => LET top == [tier |-> "Challenger", division |-> 1, points |-> 99] IN
           /\ call'.result # << >>
           /\ call'.result[1].after = top
           /\ ~call'.result[1].promoted
           /\ ~call'.result[1].demoted
           /\ RankOf(TheRow(player_ranks')) = top ]_vars

\* Challenger division 1 with 95 points won: 99 points, not promoted
C21_Witness ==
  /\ call.op = "updateRankAfterMatch" /\ call.isWin /\ call.result # << >>
  /\ call.result[1].before = [tier |-> "Challenger", division |-> 1, points |-> 95]
  /\ call.result[1].after = [tier |-> "Challenger", division |-> 1, points |-> 99]
  /\ ~call.result[1].promoted
  /\ RankOf(TheRow(player_ranks)) = call.result[1].after

\* position of a rank on the ladder: four steps per tier, division 4 lowest
LadderStep(r) == TierIndex(r.tier) * 4 + (4 - r.division)

\* C22: in every RankChange returned, promoted is true exactly when the rank
\* after is higher on the ladder than the rank before, demoted exactly when
\* it is lower, never both; a win is never demoted, a loss never promoted;
\* pointsDelta is +12 for a win and -4 for a loss.
C22_FlagsFollowLadder ==
  (call.op = "updateRankAfterMatch" /\ call.result # << >>) =>
    LET c == call.result[1] IN
    /\ c.promoted = (LadderStep(c.after) > LadderStep(c.before))
    /\ c.demoted = (LadderStep(c.after) < LadderStep(c.before))
    /\ ~(c.promoted /\ c.demoted)
    /\ call.isWin => ~c.demoted
    /\ ~call.isWin => ~c.promoted
    /\ c.pointsDelta = (IF call.isWin THEN 12 ELSE -4)

\* a loss that went down a division inside a tier, after a win
C22_Witness ==
  /\ call.op = "updateRankAfterMatch" /\ ~call.isWin /\ call.result # << >>
  /\ call.result[1].demoted /\ ~call.result[1].promoted
  /\ call.result[1].before.tier = call.result[1].after.tier
  /\ call.result[1].after.division = call.result[1].before.division + 1
  /\ TheRow(player_ranks).wins >= 1

\* the win from r hits the clamp at the top, or one of the three losses
\* after it the clamp at the bottom
ClampHit(r) ==
  \/ AtTop(r) /\ r.points + 12 >= 100
  \/ r.tier = "Iron" /\ r.division = 4 /\ r.points < 0

\* the points of a rank counted from the bottom of the ladder
LadderPoints(r) == LadderStep(r) * POINTS_PER_DIVISION + r.points

\* C23: a win followed by three losses, none of which hits a clamp, brings
\* tier, division and points back to what they were before the win; on the
\* way there the rank is the one 12 - 4 * losses points above the start.
C23_WinThenThreeLosses ==
  (/\ call.op = "updateRankAfterMatch"
   /\ call.sinceWin # << >>
   /\ call.sinceWin[1].losses <= 3
   /\ ~ClampHit(call.sinceWin[1].from))
    => /\ LadderPoints(RankOf(TheRow(player_ranks)))
            = LadderPoints(call.sinceWin[1].from) + 12 - 4 * call.sinceWin[1].losses
       /\ call.sinceWin[1].losses = 3
            => RankOf(TheRow(player_ranks)) = call.sinceWin[1].from

\* the win went from division 1 of a tier to division 4 of the next, the
\* three losses came back across the tier boundary
C23_Witness ==
  /\ call.op = "updateRankAfterMatch" /\ call.sinceWin # << >>
  /\ call.sinceWin[1].losses = 3
  /\ call.sinceWin[1].from = [tier |-> "Silver", division |-> 1, points |-> 90]
  /\ RankOf(TheRow(player_ranks)) = call.sinceWin[1].from
  /\ TheRow(player_ranks).wins = 1 /\ TheRow(player_ranks).losses = 3

\* C29: the first call for a player creates one row with the defaults (Iron,
\* division 4, 0 points, energy 5, no wins, losses or total points); a call
\* that finds a row returns it; no call changes or removes a row; and two
\* requests that run at the same time never leave two rows of the player.
C29_CreateOnce ==
  [][ /\ call'.rows <= 1
      /\ player_ranks \subseteq player_ranks'
      /\ \A r \in player_ranks' \ player_ranks :
           r = [user_id |-> RankUser, tier |-> "Iron", division |-> 4, points |-> 0,
                total_points |-> 0, wins |-> 0, losses |-> 0, online_hearts |-> 5,
                hearts_recharged_at |-> << >>]
      /\ \A i \in Requests :
           (call.req[i].pc # "idle" /\ call'.req[i].pc = "idle"
              /\ call'.req[i].result # << >>)
             => call'.req[i].result[1] \in player_ranks' ]_vars

\* both requests found no row; the first has created it and got it back, the
\* insert of the second is still under way
C29_Witness ==
  /\ call.rows = 1
  /\ player_ranks = {DefaultRank(RankUser)}
  /\ call.req[1].pc = "idle" /\ call.req[1].calls = 1
  /\ call.req[1].result = << DefaultRank(RankUser) >>
  /\ call.req[2].pc = "insert" /\ call.req[2].calls = 1

(***************************************************************************)
(* Properties of matchmaking                                               *)
(***************************************************************************)
\* the calls of tryFindOpponent that client p has running
TasksOf(p) == BagToSet(tasks[p])

\* the call has inserted its Match row (the match_found send is issued next)
Inserted(t) == t.pc = "notify" /\ t.match # 0

\* C1: when two clients run tryFindOpponent concurrently, each having
\* selected the other's entry while its own entry was 'waiting', at most one
\* of the two calls inserts a Match row.
C1_OneMatchPerPair ==
  \A p \in Searchers, q \in Searchers :
    \A t \in TasksOf(p), u \in TasksOf(q) :
      (p # q /\ t.opponent = q /\ u.opponent = p /\ t.sawWaiting /\ u.sawWaiting)
        => ~(Inserted(t) /\ Inserted(u))

\* C2: a call whose status update found fewer than two of the entries still
\* 'waiting' (so it changed fewer than two rows) is abandoned: it never gets
\* to insert a Match row and to send match_found.
C2_PartialFlipAbandoned ==
  \A p \in Searchers : \A t \in TasksOf(p) :
    Inserted(t) => t.waitingAtFlip = 2

\* C3: a call of tryFindOpponent made while the caller's own entry is not
\* 'waiting', and whose entry is not 'waiting' at its select and at its update
\* either, inserts no Match row.
C3_SearchWhenMatchedIsNoOp ==
  \A p \in Searchers : \A t \in TasksOf(p) :
    Inserted(t) => t.sawWaiting

\* the rollback update of client p was answered: a failed update is the one
\* that leaves the caller's own 'matched' entry in place
RollbackAnswered(p) ==
  ~(StatusOf(matchmaking_queue, p) = "matched" /\ matchmaking_queue' = matchmaking_queue)

\* C28: a search whose update found both entries 'waiting' and whose Match
\* insert fails sends no match_found, calls no onMatchFound and leaves the
\* caller's timers and channels as they are; and once its rollback update is
\* answered, the entries of the caller and of the opponent that are still in
\* the queue are both 'waiting'.
C28_FailedInsertRollsBack ==
  [][ \A p \in Searchers : \A t \in TasksOf(p) :
        /\ (t.pc = "insert" /\ t.waitingAtFlip = 2
              /\ tasks'[p] = TaskPut(TaskTake(tasks[p], t), [t EXCEPT !.pc = "rollback"]))
             => (inbox' = inbox /\ cb' = cb /\ mm' = mm)
        /\ (t.pc = "rollback" /\ t.waitingAtFlip = 2
              /\ tasks'[p] = TaskTake(tasks[p], t) /\ RollbackAnswered(p))
             => /\ inbox' = inbox /\ cb' = cb /\ mm' = mm
                /\ StatusOf(matchmaking_queue', p) \in {"waiting", ""}
                /\ StatusOf(matchmaking_queue', t.opponent) \in {"waiting", ""} ]_vars

(***************************************************************************)
(* Properties of the battle                                                *)
(***************************************************************************)
\* C5: once battleState.result has left 'pending' it keeps its value as long
\* as the session lives, and endBattle is called and onBattleEnd is invoked
\* at most once per client, whatever the order of game_over messages, the
\* local game over and the disconnect timer.
C5_TerminationIdempotent ==
  [][ \A p \in Players :
        /\ (battleState[p].exists /\ battleState[p].result # "pending"
              /\ battleState'[p].exists)
             => battleState'[p].result = battleState[p].result
        /\ events'[p].endBattle <= 1
        /\ events'[p].onBattleEnd <= 1 ]_vars

\* the local game over resolved the result to 'loss' and ended the battle;
\* the disconnect timer ran out on the same client as well
C5_Witness ==
  \E p \in Players :
    /\ battleState[p].exists /\ battleState[p].result = "loss"
    /\ events[p].synthesized >= 1
    /\ events[p].endBattle = 1 /\ events[p].onBattleEnd = 1

StatusRank(status) ==
  IF status = "pending" THEN 0 ELSE IF status = "playing" THEN 1 ELSE 2

\* C7: the status of a Match row only moves forward along
\* pending -> playing -> finished; a finished row never becomes playing or
\* pending again.
C7_StatusMonotonic ==
  [][ \A i \in 1..Len(matches) :
        StatusRank(matches'[i].status) >= StatusRank(matches[i].status) ]_vars

\* a presence sync without the opponent is handled by client p in this step
AbsentSyncHandled(p) ==
  /\ Next_(p, "sync") /\ Head(wire[p]).present \ {p} = {}
  /\ Receiving(p)
  /\ wire'[p] = Tail(wire[p])
  /\ events'[p].absentIgnored > events[p].absentIgnored
       \/ events'[p].onOpponentDisconnect > events[p].onOpponentDisconnect

\* C8: a presence sync without the opponent that arrives while the
\* disconnect timer is pending leaves the timer as it is and does not invoke
\* onOpponentDisconnect again; the timer invokes onOpponentGameOver only by
\* running out, once, and is not pending afterwards.
C8_GraceTimerIdempotent ==
  [][ \A p \in Players :
        /\ (AbsentSyncHandled(p) /\ battleChannel[p].disconnectTimeout = "pending")
             => /\ battleChannel'[p] = battleChannel[p]
                /\ events'[p].onOpponentDisconnect = events[p].onOpponentDisconnect
                /\ events'[p].synthesized = events[p].synthesized
        /\ events'[p].synthesized > events[p].synthesized
             => /\ battleChannel[p].disconnectTimeout = "pending"
                /\ battleChannel'[p].disconnectTimeout # "pending"
                /\ events'[p].synthesized = events[p].synthesized + 1 ]_vars

\* the opponent never came back: one onOpponentDisconnect, a further sync
\* without the opponent while the timer was pending, one synthesized game over
C8_Witness ==
  \E p \in Players :
    /\ events[p].onOpponentDisconnect = 1 /\ events[p].absentIgnored >= 1
    /\ events[p].reconnects = 0 /\ events[p].synthesized = 1
    /\ battleChannel[p].disconnectTimeout = "fired"

\* C9: a presence sync with the opponent that arrives while the disconnect
\* timer is pending cancels the timer without a synthesized game over; a
\* synthesized game over needs a pending timer; and once a disconnect episode
\* has been opened, onOpponentReconnect is raised only by the sync that finds
\* the timer handle set, so that one episode gets exactly one notification.
C9_ReconnectOncePerEpisode ==
  [][ \A p \in Players :
        /\ (/\ Next_(p, "sync") /\ Head(wire[p]).present \ {p} # {}
            /\ Receiving(p) /\ battleChannel[p].disconnectTimeout = "pending"
            /\ events'[p].reconnects > events[p].reconnects)
             => /\ battleChannel'[p].disconnectTimeout = "null"
                /\ events'[p].synthesized = events[p].synthesized
        /\ events'[p].synthesized > events[p].synthesized
             => battleChannel[p].disconnectTimeout = "pending"
        /\ (/\ events'[p].reconnects > events[p].reconnects
            /\ events[p].onOpponentDisconnect >= 1)
             => battleChannel[p].disconnectTimeout # "null" ]_vars

\* the player's connect resolved true and its sendReady was called, and its
\* battle is still open
ReadySent(p) ==
  /\ flows[p].connect = "done"
  /\ battleState[p].exists /\ battleState[p].result = "pending"
  /\ battleChannel[p].exists /\ battleChannel[p].channel = "subscribed"

\* the orchestrator of the player is Live
Live(p) ==
  /\ battleState[p].exists /\ battleState[p].isStarted
  /\ events[p].onBattleStart >= 1
  /\ battleChannel[p].exists /\ battleChannel[p].syncInterval

\* the battle of the player was ended or cleaned up
Over(p) == ~battleState[p].exists \/ battleState[p].result # "pending"

\* C6: once both players are connected to the battle channel and both have
\* called sendReady, eventually both orchestrators are Live: on the host and
\* on the non-host isStarted is true, onBattleStart was called and the
\* periodic broadcast of the own state runs.  A battle that one side ends
\* before it started (forfeit by the disconnect timer, closed screen) is not
\* held against the statement.
C6_BothLive ==
  (\A p \in Battlers : ReadySent(p))
    ~> ((\A p \in Battlers : Live(p)) \/ (\E p \in Battlers : Over(p)))

(***************************************************************************)
(* Properties of the garbage exchange                                      *)
(***************************************************************************)
\* what onLinesCleared(c) has to do on a Live client with incoming garbage i
\* and garbageSent g: toSend is 0, 1, 2, 4 for c = 1, 2, 3, 4
GarbageAsStated(p, c) ==
  LET toSend == IF c = 1 THEN 0 ELSE IF c = 2 THEN 1 ELSE IF c = 3 THEN 2 ELSE 4
      i == battleState[p].incomingGarbage
      g == battleState[p].garbageSent
      res == onLinesCleared(battleState[p], battleChannel[p], c)
  IN /\ res.sent = Max(0, toSend - i)
     /\ res.state.incomingGarbage = i - Min(i, toSend)
     /\ res.state.garbageSent = g + Max(0, toSend - i)
     /\ res.state = [battleState[p] EXCEPT !.incomingGarbage = i - Min(i, toSend),
                                          !.garbageSent = g + Max(0, toSend - i)]

\* C18: on a Live client, for every c in 1..4 and every incoming counter,
\* onLinesCleared(c) hands max(0, toSend - incoming) lines to one attack,
\* leaves incoming - min(incoming, toSend) and adds what it sent to
\* garbageSent; a step that raises garbageSent puts exactly one garbage_attack
\* with that many lines on the way to the opponent, and no other step sends one.
C18_GarbageCancellation ==
  [][ \A p \in Battlers :
        /\ Live(p) => \A c \in 1..4 : GarbageAsStated(p, c)
        /\ LET q == Opponent(p)
               sent == battleState'[p].garbageSent - battleState[p].garbageSent
           IN IF sent > 0
                THEN /\ wire'[q] = Append(wire[q], Message("garbage_attack", {}, sent))
                     /\ battleState'[p].incomingGarbage = 0
                ELSE Len(wire'[q]) <= Len(wire[q]) ]_vars

\* the Live client had nothing incoming, cleared four lines and sent four;
\* the attack is on its way
C18_Witness ==
  /\ Live("a")
  /\ battleState["a"].incomingGarbage = 0 /\ battleState["a"].garbageSent = 4
  /\ wire["b"] = << Message("garbage_attack", {}, 4) >>

(***************************************************************************)
(* Leaving and timing out of matchmaking                                    *)
(***************************************************************************)
\* the Match rows whose player1_id is p: the rows p's own searches inserted
OwnMatches(rows, p) == {i \in 1..Len(rows) : rows[i].player1_id = p}

\* all four handles of matchmaking.ts are null and nothing they referred to
\* is alive
Cancelled(h) == h = NoHandles

\* C15: a call of leaveMatchmaking(p) leaves the four handles cancelled and
\* null; and after a cancel that followed a completed join (here: while its
\* DELETE is still under way and no later join has set the handles again) no
\* step delivers onMatchFound or onTimeout to p or inserts a Match row made
\* by a search of p
C15_LeaveStopsEverything ==
  [][ \A p \in Searchers :
        /\ leaving'[p] > leaving[p] => Cancelled(mm'[p])
        /\ (/\ leaving[p] > 0 /\ cb[p].onTimeout = 0
             /\ joining[p].pc = "idle" /\ Cancelled(mm[p])) =>
             /\ cb'[p].onMatchFound = cb[p].onMatchFound
             /\ cb'[p].onTimeout = cb[p].onTimeout
             /\ OwnMatches(matches', p) = OwnMatches(matches, p) ]_vars

\* C16: for the one join attempt of a player onTimeout is delivered at most
\* once, the timeout leaves the handles cancelled, and onMatchFound and
\* onTimeout are never both delivered
C16_TimeoutOrMatch ==
  \A p \in Searchers :
    /\ cb[p].onTimeout <= 1
    /\ cb[p].onTimeout = 1 => Cancelled(mm[p])
    /\ ~(cb[p].onTimeout >= 1 /\ cb[p].onMatchFound # << >>)

\* the entries of p in the queue
EntriesOf(q, p) == {i \in 1..Len(q) : q[i].user_id = p}

\* the four handles are null
HandlesNull(h) ==
  ~h.matchmakingTimeout /\ ~h.searchInterval /\ ~h.matchmakingChannel /\ ~h.queueChannel

\* C27: every call of leaveMatchmaking leaves the four handles null; a call
\* made when they are null already changes nothing in the client; the DELETE
\* of a call, when the store applies it, removes the entry of the player and
\* no other, and with no entry of the player in the queue it changes nothing;
\* no call raises an error.
C27_LeaveIdempotent ==
  [][ \A p \in Searchers :
        /\ leaving'[p] > leaving[p] =>
             /\ HandlesNull(mm'[p])
             /\ HandlesNull(mm[p]) => mm' = mm
             /\ matchmaking_queue' = matchmaking_queue
             /\ cb' = cb
        /\ leaving'[p] < leaving[p] =>
             /\ matchmaking_queue' # matchmaking_queue => ~QueueHas(matchmaking_queue', p)
             /\ \A q \in Players \ {p} :
                  StatusOf(matchmaking_queue', q) = StatusOf(matchmaking_queue, q)
             /\ ~QueueHas(matchmaking_queue, p) => matchmaking_queue' = matchmaking_queue
             /\ mm' = mm /\ cb' = cb ]_vars

\* a has joined and cancelled twice in a row: both DELETEs are under way, the
\* handles are null
C27_Witness ==
  /\ joining["a"].calls = 1 /\ joining["a"].pc = "idle" /\ ~joining["a"].modal
  /\ leaving["a"] = 2
  /\ HandlesNull(mm["a"])
  /\ QueueHas(matchmaking_queue, "a")

(***************************************************************************)
(* Joining again                                                            *)
(***************************************************************************)
\* an attempt is under way: the four handles refer to live timers / channels
Active(h) ==
  h.matchmakingTimeout /\ h.searchInterval /\ h.matchmakingChannel /\ h.queueChannel

\* C14: a call of joinMatchmaking made while the client's attempt is under way
\* changes nothing: no step of the call changes the queue, the client's
\* handles (none overwritten, none orphaned) or its searches
C14_SecondJoinRejected ==
  [][ \A p \in Searchers :
        (/\ Active(mm[p])
         /\ joining[p].pc \in {"delete", "insert"}
         /\ joining'[p].pc # joining[p].pc) =>
          /\ matchmaking_queue' = matchmaking_queue
          /\ mm'[p] = mm[p]
          /\ tasks'[p] = tasks[p] ]_vars

\* C17: the queue never holds two entries of one player, and a join whose
\* INSERT is applied leaves exactly one entry of the player: the newest entry
\* of the queue, with status 'waiting', whatever entry there was before
C17_OneEntryPerPlayer ==
  [][ /\ \A p \in Players : Cardinality(EntriesOf(matchmaking_queue', p)) <= 1
      /\ \A p \in Searchers :
           (/\ joining[p].pc = "insert" /\ joining'[p].pc = "idle"
            /\ Len(matchmaking_queue') > Len(matchmaking_queue)) =>
             /\ EntriesOf(matchmaking_queue', p) = {Len(matchmaking_queue')}
             /\ matchmaking_queue'[Len(matchmaking_queue')].status = "waiting" ]_vars

\* a join has replaced a stale 'matched' entry by a 'waiting' one, and another
\* a stale 'waiting' entry
C17_Witness ==
  /\ joining["a"].pc = "idle" /\ joining["a"].replaced = "matched"
  /\ joining["b"].pc = "idle" /\ joining["b"].replaced = "waiting"
  /\ \A p \in Searchers : /\ Cardinality(EntriesOf(matchmaking_queue, p)) = 1
                          /\ Active(mm[p])
  /\ StatusOf(matchmaking_queue, "a") = "waiting"

(***************************************************************************)
(* Tier ranges                                                              *)
(***************************************************************************)
\* the distance of two tiers in the order of the ten tiers
TierDistance(x, y) ==
  IF TierIndex(x) >= TierIndex(y) THEN TierIndex(x) - TierIndex(y)
  ELSE TierIndex(y) - TierIndex(x)

\* C24: the tier range every search works with holds exactly the tiers at
\* distance at most 1 from the searcher's tier, in ascending order: (Iron,
\* Bronze) for Iron, (Grandmaster, Challenger) for Challenger, three tiers
\* with the searcher's in the middle otherwise; and the opponent a search
\* selects has a tier of that range.
C24_TierRange ==
  \A p \in Searchers : \A t \in BagToSet(tasks[p]) :
    LET own == TierOf(p)
        mt == t.matchableTiers
        Near(x) == TierDistance(x, own) <= 1
    IN /\ mt = SelectSeq(TIER_ORDER, Near)
       /\ \E k \in 1..Len(mt) : mt[k] = own
       /\ own = "Iron" => mt = << "Iron", "Bronze" >>
       /\ own = "Challenger" => mt = << "Grandmaster", "Challenger" >>
       /\ own \notin {"Iron", "Challenger"} => Len(mt) = 3 /\ mt[2] = own
       /\ t.opponent # "" => TierDistance(TierOf(t.opponent), own) <= 1

\* a Challenger searches with (Grandmaster, Challenger) and has selected a
\* Grandmaster; an Iron player searches with (Iron, Bronze)
C24_Witness ==
  /\ TierOf("a") = "Challenger" /\ TierOf("b") = "Grandmaster"
  /\ \E t \in BagToSet(tasks["a"]) :
       t.pc = "flip" /\ t.opponent = "b"
       /\ t.matchableTiers = << "Grandmaster", "Challenger" >>
  /\ \E t \in BagToSet(tasks["b"]) : Len(t.matchableTiers) = 3

(***************************************************************************)
(* The result of a battle                                                   *)
(***************************************************************************)
\* the rank row of a player
RankRowOf(table, p) == CHOOSE r \in table : r.user_id = p

\* the step in which endBattle returns
EndBattleReturns(p) == flows[p].ending = "record" /\ flows'[p].ending = "idle"

SortsLower(x, y) ==
  \E i \in 1..Len(PlayerOrder) : \E j \in (i + 1)..Len(PlayerOrder) :
    PlayerOrder[i] = x /\ PlayerOrder[j] = y

\* interval iv of p's client ticks in this step
Ticked(p, iv) ==
  /\ iv \in countdowns[p].alive /\ iv \notin countdowns'[p].alive
  /\ countdowns'[p].made = countdowns[p].made
  /\ game'[p].resultModal = game[p].resultModal
  /\ flows'[p].cleanups = flows[p].cleanups

\* C30: a countdown is started only by the player whose id sorts lower, in
\* the step in which it receives the opponent's player_ready, after it has
\* sent its own; every tick broadcasts the count of its interval and mirrors
\* it in battleState.countdown, the counts run COUNTDOWN_SECONDS, ..., 0, each
\* one less than the one before; the other client mirrors the ticks that
\* reach it, in decreasing order; startBattle is called by the tick of count
\* 0 and by nothing else.
C30_CountdownOrder ==
  [][ \A p \in Players :
        /\ countdowns'[p].made > countdowns[p].made =>
             /\ battleState[p].exists
             /\ SortsLower(p, battleState[p].opponentId)
             /\ flows[p].connect = "done"
             /\ Next_(p, "player_ready")
             /\ \E iv \in countdowns'[p].alive \ countdowns[p].alive :
                  iv.count = COUNTDOWN_SECONDS
        /\ \A iv \in countdowns[p].alive : Ticked(p, iv) =>
             /\ iv.count \in 0..COUNTDOWN_SECONDS
             /\ battleState'[p].countdown = iv.count
             /\ iv.count = COUNTDOWN_SECONDS \/ iv.count = battleState[p].countdown - 1
             /\ \A q \in Players : Len(wire'[q]) > Len(wire[q]) =>
                  wire'[q][Len(wire'[q])] = Message("countdown", {}, iv.count)
             /\ flows'[p].starting > flows[p].starting <=> iv.count = 0
        /\ flows'[p].starting > flows[p].starting =>
             \E iv \in countdowns[p].alive : Ticked(p, iv)
        /\ (/\ battleState[p].exists /\ battleState'[p].exists
            /\ battleState'[p].countdown # battleState[p].countdown) =>
               /\ battleState'[p].countdown < battleState[p].countdown
               /\ battleState'[p].countdown >= 0 ]_vars

(***************************************************************************)
(* Cleaning up                                                              *)
(***************************************************************************)
\* cleanupBattle runs on p's client in this step
CleanupStep(p) ==
  \/ flows'[p].cleanups > flows[p].cleanups
  \/ game[p].resultModal /\ ~game'[p].resultModal

\* C26: in whatever state cleanupBattle is called (no session yet, connecting,
\* awaiting ready, counting down, startBattle or endBattle awaiting the store,
\* Live, terminated) and however often: afterwards battleState and
\* battleChannel are null, isInBattle() is false, no countdown interval is
\* alive, and the state sync and the disconnect timer are off; and as long as
\* there is no session, no interval or timer comes to life and none of the
\* callbacks of the session is invoked.
C26_CleanupAnywhere ==
  [][ \A p \in Players :
        /\ CleanupStep(p) =>
             /\ battleState'[p] = NoSession
             /\ battleChannel'[p] = NoBattleChannel
             /\ ~(battleState'[p].exists /\ battleState'[p].isStarted)
             /\ countdowns'[p].countdownInterval = 0
             /\ countdowns'[p].alive = {}
        /\ (~battleState[p].exists /\ ~battleState'[p].exists) =>
             /\ countdowns'[p].alive = {}
             /\ ~battleChannel'[p].syncInterval
             /\ battleChannel'[p].disconnectTimeout = "null"
             /\ events'[p] = events[p] ]_vars

(***************************************************************************)
(* Counters of the rank row                                                 *)
(***************************************************************************)
\* C31: an updateRankAfterMatch call that returns a rank change has added 1
\* to wins and 12 to total_points on a win, 1 to losses and nothing to
\* total_points on a loss, and has left the other counter as it was; a call
\* that returns null has changed no field of the row (a row that was missing
\* may have been created with the defaults); so total_points never decreases
\* and is 12 times wins after every sequence of results.
C31_CountersFollowResults ==
  [][ /\ \A r \in player_ranks' : r.total_points = 12 * r.wins
      /\ Called("updateRankAfterMatch") =>
           LET old == IF NoRow(player_ranks, RankUser) THEN DefaultRank(RankUser)
                      ELSE TheRow(player_ranks)
           IN IF call'.result # << >>
                THEN LET new == TheRow(player_ranks') IN
                     /\ new.wins = old.wins + (IF call'.isWin THEN 1 ELSE 0)
                     /\ new.losses = old.losses + (IF call'.isWin THEN 0 ELSE 1)
                     /\ new.total_points = old.total_points + (IF call'.isWin THEN 12 ELSE 0)
                     /\ new.total_points >= old.total_points
                ELSE /\ player_ranks' \in {player_ranks, {old}}
                     /\ ~NoRow(player_ranks, RankUser) => player_ranks' = player_ranks ]_vars

\* after wins and losses the store has turned down an update: the call
\* returned null and the counters are those of the results before
C31_Witness ==
  /\ call.op = "updateRankAfterMatch" /\ call.io.fetch /\ ~call.io.update
  /\ call.result = << >>
  /\ ~NoRow(player_ranks, RankUser)
  /\ TheRow(player_ranks).wins = 2 /\ TheRow(player_ranks).losses = 1
  /\ TheRow(player_ranks).total_points = 24

(***************************************************************************)
(* Draining and accounting of garbage                                       *)
(***************************************************************************)
\* C32: applyPendingGarbage returns the incomingGarbage of the session and
\* leaves it 0, everything else of the session as it was, so that a call
\* right after it returns 0; without a session it returns 0 and changes
\* nothing.  The call lockPiece makes on a Live client returns what was
\* incoming and leaves 0.
C32_DrainReturnsCounter ==
  [][ \A p \in Players :
        /\ LET bs == battleState[p]
               res == applyPendingGarbage(bs)
           IN /\ bs.exists => /\ res.garbage = bs.incomingGarbage
                              /\ res.state = [bs EXCEPT !.incomingGarbage = 0]
              /\ ~bs.exists => res.garbage = 0 /\ res.state = bs
              /\ applyPendingGarbage(res.state).garbage = 0
              /\ applyPendingGarbage(res.state).state = res.state
        /\ events'[p].applied # events[p].applied =>
             /\ events'[p].applied = << battleState[p].incomingGarbage >>
             /\ battleState'[p] = [battleState[p] EXCEPT !.incomingGarbage = 0] ]_vars

\* the Live client has drained 3 lines of garbage on one piece lock, and the
\* call of the next piece lock returned 0
C32_Witness ==
  /\ Live("a")
  /\ events["a"].drained = 3 /\ events["a"].applied = << 0 >>
  /\ events["a"].cancelled = 0
  /\ battleState["a"].incomingGarbage = 0

\* C39: in a session incomingGarbage is never negative and is the lines of
\* the attacks received less the lines cancelled by onLinesCleared less the
\* lines drained by applyPendingGarbage; garbageSent is the sum of the lines
\* handed to sendGarbageAttack and no step lowers it; and on a client whose
\* battle is not Live onLinesCleared changes nothing and sends nothing,
\* whatever the number of lines.
C39_GarbageAccounting ==
  [][ \A p \in Players :
        /\ battleState'[p].exists =>
             /\ battleState'[p].incomingGarbage >= 0
             /\ battleState'[p].incomingGarbage =
                  events'[p].received - events'[p].cancelled - events'[p].drained
             /\ battleState'[p].garbageSent = events'[p].attacked
        /\ (battleState[p].exists /\ battleState'[p].exists) =>
             battleState'[p].garbageSent >= battleState[p].garbageSent
        /\ ~(battleState[p].exists /\ battleChannel[p].exists /\ battleState[p].isStarted) =>
             \A c \in 0..4 :
               onLinesCleared(battleState[p], battleChannel[p], c)
                 = [state |-> battleState[p], sent |-> 0] ]_vars

\* the Live client has received 5 lines, cancelled 2 of them with a clear
\* of 3 lines, drained 3 and then sent an attack of 4; the other client, not
\* Live, holds the 4 lines it received
C39_Witness ==
  /\ Live("a")
  /\ events["a"].received = 5 /\ events["a"].cancelled = 2 /\ events["a"].drained = 3
  /\ battleState["a"].incomingGarbage = 0 /\ battleState["a"].garbageSent = 4
  /\ ~battleState["b"].isStarted /\ battleState["b"].incomingGarbage = 4
  /\ events["b"].received = 4


(***************************************************************************)
(* The match history                                                        *)
(***************************************************************************)
\* the history rows of player p for match m
HistoryOf(table, m, p) == {h \in table : h.match_id = m /\ h.player_id = p}

\* C33: rows are only added to match_history, one at a time, by the
\* termination (endBattle) of the player the row names; a player has at most
\* one row per session it had for the match, so a match both players went
\* through once has at most two rows; and the row's result, points change and
\* tier and division before and after are those of the MatchResult and
\* RankChange the same endBattle gave to onBattleEnd
C33_HistoryAgrees ==
  [][ /\ match_history \subseteq match_history'
      /\ Cardinality(match_history' \ match_history) <= 1
      /\ \A h \in match_history' \ match_history :
           LET p == h.player_id IN
           /\ p \in Battlers /\ h.match_id = BattleMatch
           /\ flows[p].ending = "record" /\ flows'[p].ending = "idle"
           /\ Cardinality(HistoryOf(match_history', BattleMatch, p)) <= flows[p].calls
           /\ (\A q \in Players : flows[q].calls <= 1) =>
                Cardinality({g \in match_history' : g.match_id = BattleMatch}) <= 2
           /\ battleState[p].exists =>
                /\ events'[p].onBattleEnd = events[p].onBattleEnd + 1
                /\ events'[p].result # << >>
                /\ LET r == events'[p].result[1] IN
                   /\ h.result = (IF r.isWin THEN "win" ELSE "loss")
                   /\ h.points_change = r.rankChange.pointsDelta
                   /\ h.tier_before = r.rankChange.before.tier
                   /\ h.division_before = r.rankChange.before.division
                   /\ h.tier_after = r.rankChange.after.tier
                   /\ h.division_after = r.rankChange.after.division ]_vars

\* both players' terminations have written their row: the winner's with +12,
\* the loser's with -4, each as its onBattleEnd was told
C33_Witness ==
  /\ Cardinality(match_history) = 2
  /\ \A p \in Battlers :
       /\ Cardinality(HistoryOf(match_history, BattleMatch, p)) = 1
       /\ events[p].result # << >>
       /\ \A h \in HistoryOf(match_history, BattleMatch, p) :
            /\ h.result = (IF events[p].result[1].isWin THEN "win" ELSE "loss")
            /\ h.points_change = events[p].result[1].rankChange.pointsDelta
  /\ \E h \in match_history : h.result = "win" /\ h.points_change = 12
  /\ \E h \in match_history : h.result = "loss" /\ h.points_change = -4

(***************************************************************************)
(* One countdown per session                                                *)
(***************************************************************************)
\* C34: in the one session a client has here, startCountdown has run at most
\* once, at most one countdown interval is alive, no interval is alive past
\* its terminal tick (its count is never below zero while it is alive), at
\* most one startBattle is awaiting its store write, and startBattle has
\* completed (onBattleStart, startGameStateSync) at most once, also when the
\* opponent's player_ready has arrived more than once
C34_OneCountdown ==
  \A p \in Players :
    /\ countdowns[p].made <= 1
    /\ Cardinality(countdowns[p].alive) <= 1
    /\ \A iv \in countdowns[p].alive : iv.count >= 0
    /\ flows[p].starting <= 1
    /\ events[p].onBattleStart <= 1

(***************************************************************************)
(* The two results of a match                                               *)
(***************************************************************************)
\* C35: when both players of the match have resolved their result, one is
\* `win` and the other `loss`, and the winner_id stored with the match is not
\* a player whose resolved result is `loss`
C35_ComplementaryResults ==
  /\ \A p \in Battlers : \A q \in Battlers \ {p} :
       (/\ battleState[p].exists /\ battleState[p].result # "pending"
        /\ battleState[q].exists /\ battleState[q].result # "pending")
         => battleState[p].result # battleState[q].result
  /\ \A p \in Battlers :
       (/\ matches[BattleMatch].winner_id = << p >>
        /\ battleState[p].exists /\ flows[p].ending = "idle"
        /\ flows[Opponent(p)].ending = "idle")
         => battleState[p].result # "loss"

(***************************************************************************)
(* Results before the start                                                 *)
(***************************************************************************)
\* C37: a client whose session has a resolved result, whose disconnect timer
\* has reported the opponent's game over, or whose endBattle is running, is
\* in a battle that was started (isStarted)
C37_OnlyStartedBattlesEnd ==
  \A p \in Players :
    (/\ battleState[p].exists
     /\ \/ battleState[p].result # "pending"
        \/ events[p].synthesized > 0
        \/ flows[p].ending # "idle")
      => battleState[p].isStarted

(***************************************************************************)
(* One match per join attempt                                               *)
(***************************************************************************)
\* the Match rows that name player p
MatchesNaming(rows, p) ==
  {i \in 1..Len(rows) : rows[i].player1_id = p \/ rows[i].player2_id = p}

\* C36: a client that has made one join attempt has had onMatchFound invoked
\* at most once, and at most one Match row names it
C36_OneMatchPerJoin ==
  \A p \in Searchers :
    joining[p].calls <= 1 =>
      /\ Len(cb[p].onMatchFound) <= 1
      /\ Cardinality(MatchesNaming(matches, p)) <= 1

(***************************************************************************)
(* The rollback of a failed pairing                                         *)
(***************************************************************************)
\* C38: a step that sets an entry from `matched` back to `waiting` (the
\* rollback after a failed Match insert) does so only for a player that no
\* Match row names
C38_RollbackSparesMatched ==
  [][ \A p \in Searchers :
        (/\ StatusOf(matchmaking_queue, p) = "matched"
         /\ StatusOf(matchmaking_queue', p) = "waiting")
          => MatchesNaming(matches, p) = {} ]_vars

(***************************************************************************)
(* The Match rows of the pairing search                                     *)
(***************************************************************************)
\* C40: the opponent a search selects is the oldest entry of the queue that
\* is another player's, `waiting`, and of a tier at distance at most 1 from
\* the searcher's; a Match row is created by a search of its player1 for the
\* opponent that search selected, names two distinct players, and the tiers
\* of the two players' queue entries differ by at most one position
C40_PairingChoice ==
  [][ /\ \A p \in Searchers : \A u \in BagToSet(tasks'[p]) :
           (u.pc = "flip" /\ CopiesIn(u, tasks'[p]) > CopiesIn(u, tasks[p])) =>
             LET q == matchmaking_queue
                 InWindow(r) == /\ r.user_id # p /\ r.status = "waiting"
                                /\ TierDistance(r.tier, TierOf(p)) <= 1
             IN \E i \in 1..Len(q) :
                  /\ q[i].user_id = u.opponent /\ InWindow(q[i])
                  /\ \A j \in 1..(i - 1) : ~InWindow(q[j])
      /\ Len(matches') > Len(matches) =>
           LET r == matches'[Len(matches')]
               q == matchmaking_queue
           IN /\ Len(matches') = Len(matches) + 1
              /\ r.player1_id # r.player2_id
              /\ \E t \in TasksOf(r.player1_id) : t.pc = "insert" /\ t.opponent = r.player2_id
              /\ \A i \in 1..Len(q), j \in 1..Len(q) :
                   (q[i].user_id = r.player1_id /\ q[j].user_id = r.player2_id)
                     => TierDistance(q[i].tier, q[j].tier) <= 1 ]_vars

\* b, with the entries of c and a both waiting inside its window when it
\* searched, was paired with c, the older one, whose entry is one tier away
C40_Witness ==
  /\ Len(matchmaking_queue) = 3
  /\ matchmaking_queue[1].user_id = "c" /\ matchmaking_queue[2].user_id = "a"
  /\ matchmaking_queue[2].status = "waiting" /\ tasks["a"] = EmptyBag
  /\ TierOf("a") = TierOf("b")
  /\ TierDistance(matchmaking_queue[1].tier, TierOf("b")) = 1
  /\ \E i \in 1..Len(matches) : matches[i].player1_id = "b" /\ matches[i].player2_id = "c"
=============================================================================
